---- MODULE Spec2Model ----
(***************************************************************************)
(* Model of the ai-project-analizer pipeline: the six agents of            *)
(* src/src/agents, wired as in "src/src/workflows copy.py", exchanging     *)
(* typed events over one-way FIFO links.  Every handle() call is one       *)
(* atomic action (the agents are single-threaded Python objects).          *)
(*                                                                         *)
(* Strings that the code inspects character by character (archive member   *)
(* names, directory names) are sequences of one-character strings, so      *)
(* that str.startswith, the split on "/" and Path.resolve are computed     *)
(* and not assumed.                                                        *)
(***************************************************************************)
EXTENDS Integers, Sequences, FiniteSets, TLC

(***************************************************************************)
(* Bounds of the model                                                     *)
(***************************************************************************)
MaxMembers == 2

MaxDeliveries == 5

(***************************************************************************)
(* Program constants                                                       *)
(***************************************************************************)
ZIP_SIZE_LIMIT_MB == 300

MAX_MEMBER_SIZE_MB == 150

MiB == 1048576

(***************************************************************************)
(* Generic helpers                                                         *)
(***************************************************************************)
None == <<>>

Some(v) == <<v>>

IsPrefix(p, s) == Len(p) <= Len(s) /\ \A i \in 1..Len(p) : p[i] = s[i]

Last(s) == s[Len(s)]

Front(s) == SubSeq(s, 1, Len(s) - 1)

RECURSIVE Flatten(_, _)
Flatten(segs, sep) ==
    IF segs = <<>> THEN <<>>
    ELSE IF Len(segs) = 1 THEN segs[1]
    ELSE segs[1] \o sep \o Flatten(Tail(segs), sep)

\* str.split("/"): the list of the pieces between the separators
RECURSIVE SplitAcc(_, _, _)
SplitAcc(s, cur, acc) ==
    IF s = <<>> THEN Append(acc, cur)
    ELSE IF Head(s) = "/" THEN SplitAcc(Tail(s), <<>>, Append(acc, cur))
    ELSE SplitAcc(Tail(s), Append(cur, Head(s)), acc)

Split(s) == SplitAcc(s, <<>>, <<>>)

(***************************************************************************)
(* pathlib: a Path is the sequence of its segments below the root "/"      *)
(***************************************************************************)
\* Path.resolve() on a path without symlinks: "" and "." vanish, ".." pops
RECURSIVE ResolveAcc(_, _)
ResolveAcc(segs, acc) ==
    IF segs = <<>> THEN acc
    ELSE IF Head(segs) = <<>> \/ Head(segs) = <<".">> THEN ResolveAcc(Tail(segs), acc)
    ELSE IF Head(segs) = <<".", ".">>
         THEN ResolveAcc(Tail(segs), IF acc = <<>> THEN acc ELSE Front(acc))
    ELSE ResolveAcc(Tail(segs), Append(acc, Head(segs)))

\* str(path)
PathStr(segs) == <<"/">> \o Flatten(segs, <<"/">>)

\* Path.relative_to(base), defined when base is a segment prefix of path
RelativeTo(path, base) == SubSeq(path, Len(base) + 1, Len(path))

IsDescendant(path, base) == IsPrefix(base, path)

(***************************************************************************)
(* The temporary directory tempfile.mkdtemp(prefix="ai_analyser_") yields  *)
(***************************************************************************)
TmpDir == << <<"t", "m", "p">>, <<"a", "i", "_", "1">> >>

(***************************************************************************)
(* Archive members the uploads of the model are made of                    *)
(***************************************************************************)
\* content is what the bytes of the member are:
\*   "heading" text whose first line is a markdown heading
\*   "plain"   text without heading, not valid JSON, YAML mapping or Python
\*   "python"  valid Python source      "json"  a valid JSON object
\*   "binary"  more than 30% control bytes in the first 1024 bytes
Member(fn, size, crc, enc, content) ==
    [filename |-> fn, file_size |-> size, crc_ok |-> crc,
     encrypted |-> enc, content |-> content]

M_readme == Member(<<"R", "E", "A", "D", "M", "E", ".", "m", "d">>, 10, TRUE, FALSE, "heading")

M_main == Member(<<"m", "a", "i", "n", ".", "p", "y">>, 10, TRUE, FALSE, "python")

M_png == Member(<<"a", ".", "p", "n", "g">>, 10, TRUE, FALSE, "binary")

\* "d/n.md", exactly as large as the cap allows
M_notes == Member(<<"d", "/", "n", ".", "m", "d">>, MAX_MEMBER_SIZE_MB * MiB, TRUE, FALSE, "plain")

M_big == Member(<<"b", ".", "b", "i", "n">>, MAX_MEMBER_SIZE_MB * MiB + 1, TRUE, FALSE, "binary")

MemberPool ==
    LET \* "d/" : a directory entry
        M_dir == Member(<<"d", "/">>, 0, TRUE, FALSE, "plain")
        M_badcrc == Member(<<"c", ".", "t", "x", "t">>, 10, FALSE, FALSE, "plain")
        M_enc == Member(<<"e", ".", "t", "x", "t">>, 10, TRUE, TRUE, "plain")
        \* "../x" : leaves the working directory through its parent
        M_dotdot == Member(<<".", ".", "/", "x">>, 10, TRUE, FALSE, "plain")
        \* "/etc/x" : absolute override
        M_abs == Member(<<"/", "e", "t", "c", "/", "x">>, 10, TRUE, FALSE, "plain")
        \* "../ai_12/x" : a sibling directory whose name starts with the name of TmpDir
        M_sibling == Member(<<".", ".", "/", "a", "i", "_", "1", "2", "/", "x">>, 10, TRUE, FALSE, "plain")
    IN { M_readme, M_main, M_png, M_notes, M_dir, M_big, M_badcrc, M_enc,
         M_dotdot, M_abs, M_sibling }

\* the files of the triage and analysis scenarios
S_readme == Member(<<"R", "E", "A", "D", "M", "E">>, 10, TRUE, FALSE, "heading")

S_notes == Member(<<"n", "o", "t", "e", "s", ".", "m", "d">>, 10, TRUE, FALSE, "plain")

\* "logo.png" whose bytes are text
S_logo == Member(<<"l", "o", "g", "o", ".", "p", "n", "g">>, 10, TRUE, FALSE, "plain")

S_deep == Member(<<"d", "e", "e", "p", ".", "p", "y">>, 10, TRUE, FALSE, "deep")

S_long == Member(<<"l", "o", "n", "g", ".", "m", "d">>, 10, TRUE, FALSE, "longheading")

S_data == Member(<<"d", "a", "t", "a", ".", "j", "s", "o", "n">>, 10, TRUE, FALSE, "json")

\* the archives of the scenarios
ScenarioLists ==
    LET \* "a/x.md" and "b/x.md": one file name in two directories
        S_ax == Member(<<"a", "/", "x", ".", "m", "d">>, 10, TRUE, FALSE, "plain")
        S_bx == Member(<<"b", "/", "x", ".", "m", "d">>, 10, TRUE, FALSE, "heading")
        \* "x.cfg": a text file that is neither source nor documentation
        S_cfg == Member(<<"x", ".", "c", "f", "g">>, 10, TRUE, FALSE, "plain")
    IN { <<M_png, S_readme, M_main, S_notes>>,
         <<M_readme, M_main, M_png>>,
         <<S_logo, S_data, M_notes>>,
         <<S_notes, S_deep, S_data>>,
         <<S_long, M_main>>,
         <<M_notes, S_long, S_logo>>,
         <<S_bx, S_ax, M_main>>,
         <<S_cfg, M_main, S_notes>>,
         <<S_deep>>,
         <<>> }

\* An upload: the file at zip_path as the validator and the extractor see it
\*   exists   - Path.exists()
\*   st_size  - Path.stat().st_size
\*   eocd     - zipfile.is_zipfile(): an end-of-central-directory record is found
\*   readable - zipfile.ZipFile() reads the central directory without BadZipFile
Upload(ex, sz, eocd, rd, ms) ==
    [exists |-> ex, st_size |-> sz, eocd |-> eocd, readable |-> rd, members |-> ms]

ZipSizes == { 1000, ZIP_SIZE_LIMIT_MB * MiB, ZIP_SIZE_LIMIT_MB * MiB + 1 }

Uploads ==
    LET \* the member lists of at most MaxMembers different members
        MemberLists ==
            UNION { { s \in [1..n -> MemberPool] : \A i, j \in 1..n : i # j => s[i] # s[j] }
                    : n \in 0..MaxMembers }
    IN
    { Upload(FALSE, 0, FALSE, FALSE, <<>>) }
    \cup { Upload(TRUE, sz, FALSE, FALSE, <<>>) : sz \in ZipSizes }
    \cup { Upload(TRUE, sz, TRUE, FALSE, <<>>) : sz \in ZipSizes }
    \cup { Upload(TRUE, sz, TRUE, TRUE, ms) : sz \in ZipSizes, ms \in MemberLists }

(***************************************************************************)
(* Events                                                                  *)
(***************************************************************************)
Ev(t, p) == [type |-> t, payload |-> p]

ZipPath == "upload.zip"

NoPayload == [none |-> TRUE]

Count(evs, t) == Cardinality({ i \in 1..Len(evs) : evs[i].type = t })

(***************************************************************************)
(* zipfile.ZipFile.testzip(): reads the members in archive order; the      *)
(* first member whose CRC is wrong is returned (BadZipFile is caught       *)
(* inside testzip), a member that cannot be opened because it is           *)
(* encrypted raises RuntimeError out of testzip.                           *)
(***************************************************************************)
RECURSIVE testzip(_)
testzip(ms) ==
    IF ms = <<>> THEN [kind |-> "none", member |-> None]
    ELSE IF Head(ms).encrypted THEN [kind |-> "raise", member |-> Some(Head(ms).filename)]
    ELSE IF ~Head(ms).crc_ok THEN [kind |-> "bad", member |-> Some(Head(ms).filename)]
    ELSE testzip(Tail(ms))

(***************************************************************************)
(* ZipValidatorAgent.handle                                                *)
(***************************************************************************)
Invalid(msg, member) ==
    Ev("ZipInvalid", [zip_path |-> ZipPath, reason |-> [msg |-> msg, member |-> member]])

\* the result of one handle() call: the events emitted, and whether the
\* call ended with an exception that handle() does not catch
ZipValidatorHandle(ev, up) ==
    IF ev.type # "NewUpload" THEN [out |-> <<>>, raised |-> FALSE]
    ELSE IF ~up.exists
         THEN [out |-> <<Invalid("File does not exist", None)>>, raised |-> FALSE]
    ELSE IF up.st_size > ZIP_SIZE_LIMIT_MB * MiB
         THEN [out |-> <<Invalid("Archive exceeds limit", None)>>, raised |-> FALSE]
    ELSE IF ~up.eocd
         THEN [out |-> <<Invalid("Not a ZIP archive", None)>>, raised |-> FALSE]
    ELSE IF ~up.readable
         THEN [out |-> <<Invalid("ZIP read error", None)>>, raised |-> FALSE]
    ELSE LET corrupt == testzip(up.members) IN
         IF corrupt.kind = "raise" THEN [out |-> <<>>, raised |-> TRUE]
         ELSE IF corrupt.kind = "bad"
              THEN [out |-> <<Invalid("CRC error in member", corrupt.member)>>,
                    raised |-> FALSE]
         ELSE [out |-> <<Ev("ZipValid", [zip_path |-> ZipPath])>>, raised |-> FALSE]

(***************************************************************************)
(* extraction_agent.safe_extract                                           *)
(***************************************************************************)
\* 2a) the size check of one member
TooLarge(m) == m.file_size > MAX_MEMBER_SIZE_MB * MiB

\* 2b) target = (tmp_dir / member.filename).resolve()
Target(m) ==
    LET \* tmp_dir / member.filename: an absolute name replaces the base
        JoinPath(base, name) ==
            IF name # <<>> /\ Head(name) = "/" THEN Split(name) ELSE base \o Split(name)
    IN ResolveAcc(JoinPath(TmpDir, m.filename), <<>>)

\*     not str(target).startswith(str(tmp_dir))
IllegalPath(m) == ~IsPrefix(PathStr(TmpDir), PathStr(Target(m)))

\* the members the checking loop has looked at when it stops: all of them,
\* or those up to the first member that fails a check
RECURSIVE FirstRejected(_, _)
FirstRejected(ms, i) ==
    IF i > Len(ms) THEN 0
    ELSE IF TooLarge(ms[i]) \/ IllegalPath(ms[i]) THEN i
    ELSE FirstRejected(ms, i + 1)

\* ZipFile.extractall -> _extract_member: the path a member is written to;
\* "", "." and ".." parts of the name are dropped, the rest is joined to tmp_dir
RECURSIVE DropInvalidParts(_)
DropInvalidParts(parts) ==
    IF parts = <<>> THEN <<>>
    ELSE IF Head(parts) \in { <<>>, <<".">>, <<".", ".">> } THEN DropInvalidParts(Tail(parts))
    ELSE <<Head(parts)>> \o DropInvalidParts(Tail(parts))

\* the path a member would be written to if extractall kept the ".." parts
\* of its name
ExtractedPath_KeepDotDot(m) == Target(m)

ExtractedPath(m) == TmpDir \o DropInvalidParts(Split(m.filename))

\* ZipInfo.is_dir()
IsDirMember(m) == Last(m.filename) = "/"

Failure(msg, member) == [msg |-> msg, member |-> member]

\* the exception the checking loop raises for member r
Refusal(ms, r) ==
    IF TooLarge(ms[r]) THEN Failure("Refusing to extract", Some(ms[r].filename))
    ELSE Failure("Illegal file path detected", Some(ms[r].filename))

\* the working directory after the first n members have been extracted
Extracted(ms, n) ==
    [tmp_created |-> TRUE,
     written |-> { ms[i].filename : i \in 1..n },
     files |-> { ExtractedPath(ms[i]) : i \in { j \in 1..n : ~IsDirMember(ms[j]) } }]

\* safe_extract as it would be if every member were extracted as soon as it
\* has passed its checks, instead of after the whole checking loop
safe_extract_interleaved(up) ==
    LET ms == up.members IN
    IF ~up.exists \/ ~up.eocd \/ ~up.readable
    THEN Extracted(ms, 0) @@ [exc |-> Some(Failure("cannot open archive", None))]
    ELSE IF testzip(ms).kind = "bad"
    THEN Extracted(ms, 0) @@ [exc |-> Some(Failure("CRC check failed", testzip(ms).member))]
    ELSE IF testzip(ms).kind = "raise"
    THEN Extracted(ms, 0) @@ [exc |-> Some(Failure("encrypted", testzip(ms).member))]
    ELSE IF FirstRejected(ms, 1) # 0
    THEN Extracted(ms, FirstRejected(ms, 1) - 1)
         @@ [exc |-> Some(Refusal(ms, FirstRejected(ms, 1)))]
    ELSE Extracted(ms, Len(ms)) @@ [exc |-> None]

\* What one call of safe_extract does: mkdtemp runs first; then the archive
\* is opened, testzip runs, every member is checked, and only then
\* extractall writes the members.  exc is the exception (None on return).
safe_extract(up) ==
    LET ms == up.members IN
    IF ~up.exists \/ ~up.eocd \/ ~up.readable
    THEN Extracted(ms, 0) @@ [exc |-> Some(Failure("cannot open archive", None))]
    ELSE IF testzip(ms).kind = "bad"
    THEN Extracted(ms, 0) @@ [exc |-> Some(Failure("CRC check failed", testzip(ms).member))]
    ELSE IF testzip(ms).kind = "raise"
    THEN Extracted(ms, 0) @@ [exc |-> Some(Failure("encrypted", testzip(ms).member))]
    ELSE IF FirstRejected(ms, 1) # 0
    THEN Extracted(ms, 0) @@ [exc |-> Some(Refusal(ms, FirstRejected(ms, 1)))]
    ELSE Extracted(ms, Len(ms)) @@ [exc |-> None]

(***************************************************************************)
(* str helpers: lower(), comparison by code point, endswith, Path.suffix   *)
(***************************************************************************)
LowerStr(s) ==
    LET UpperCase == <<"A", "B", "C", "D", "E", "F", "G", "H", "I", "J", "K", "L", "M", "N", "O", "P", "Q", "R", "S", "T", "U", "V", "W", "X", "Y", "Z">>
        LowerCase == <<"a", "b", "c", "d", "e", "f", "g", "h", "i", "j", "k", "l", "m", "n", "o", "p", "q", "r", "s", "t", "u", "v", "w", "x", "y", "z">>
        Lower(c) == IF \E i \in 1..26 : UpperCase[i] = c
                    THEN LowerCase[CHOOSE i \in 1..26 : UpperCase[i] = c]
                    ELSE c
    IN [i \in 1..Len(s) |-> Lower(s[i])]

\* the characters of the model in code-point order
RECURSIVE StrLess(_, _)
StrLess(a, b) ==
    IF b = <<>> THEN FALSE
    ELSE IF a = <<>> THEN TRUE
    ELSE IF Head(a) = Head(b) THEN StrLess(Tail(a), Tail(b))
    ELSE LET CodePoints == <<"-", ".", "/", "0", "1", "2", "3", "4", "5", "6", "7", "8", "9", "A", "B", "C", "D", "E", "F", "G", "H", "I", "J", "K", "L", "M", "N", "O", "P", "Q", "R", "S", "T", "U", "V", "W", "X", "Y", "Z", "_", "a", "b", "c", "d", "e", "f", "g", "h", "i", "j", "k", "l", "m", "n", "o", "p", "q", "r", "s", "t", "u", "v", "w", "x", "y", "z">>
             Code(c) == CHOOSE i \in 1..Len(CodePoints) : CodePoints[i] = c
         IN Code(Head(a)) < Code(Head(b))

EndsWith(s, p) ==
    Len(p) <= Len(s) /\ SubSeq(s, Len(s) - Len(p) + 1, Len(s)) = p

\* str.rfind("."), 1-based, 0 when absent
RFindDot(s) ==
    IF \E i \in 1..Len(s) : s[i] = "."
    THEN CHOOSE i \in 1..Len(s) : s[i] = "." /\ \A j \in (i + 1)..Len(s) : s[j] # "."
    ELSE 0

\* Path.name, Path.suffix, Path.stem, Path.parent
PathName(path) == IF path = <<>> THEN <<>> ELSE Last(path)

HasSuffix(name) == RFindDot(name) > 1 /\ RFindDot(name) < Len(name)

PathSuffix(path) ==
    LET name == PathName(path) IN
    IF HasSuffix(name) THEN SubSeq(name, RFindDot(name), Len(name)) ELSE <<>>

PathStem(path) ==
    LET name == PathName(path) IN
    IF HasSuffix(name) THEN SubSeq(name, 1, RFindDot(name) - 1) ELSE name

\* sorted(s, key=...): the stable sort of s by a strict weak order Less
StableSort(s, Less(_, _)) ==
    LET n == Len(s)
        rank(i) == Cardinality({ j \in 1..n : Less(s[j], s[i]) })
                   + Cardinality({ j \in 1..(i - 1) : ~Less(s[j], s[i]) /\ ~Less(s[i], s[j]) })
                   + 1
    IN [k \in 1..n |-> s[CHOOSE i \in 1..n : rank(i) = k]]

(***************************************************************************)
(* The bodies of the files of the model.  A member's content names one of  *)
(* them; FileText is the text read_text_safe returns for it.               *)
(***************************************************************************)
\* the character U+2026 and the byte 0, each one element of a string
Ellipsis == "..."

NUL == "^@"

\* the slice s[:n]
Take(s, n) == SubSeq(s, 1, IF Len(s) < n THEN Len(s) ELSE n)

\* "deep" stands for a Python source whose expression nesting exceeds the
\* parser's recursion limit ("a" followed by 30000 times ".b"); the text
\* kept here is its beginning
FileText(content) ==
    CASE content = "heading" -> <<"#", " ", "T", "i", "t", "l", "e", "\n", "\n", "S", "o", "m", "e", " ", "t", "e", "x", "t", ".", "\n">>
      [] content = "plain" -> <<"N", "o", "t", "e", "s", " ", "o", "n", " ", "i", "t", ".", " ", "M", "o", "r", "e", ".", "\n">>
      [] content = "python" -> <<"d", "e", "f", " ", "r", "u", "n", "(", ")", ":", "\n", " ", " ", " ", " ", "p", "a", "s", "s", "\n">>
      [] content = "json" -> <<"{", "\"", "n", "a", "m", "e", "\"", ":", " ", "1", "}", "\n">>
      [] content = "binary" -> <<NUL, NUL, NUL, "P", "N", "G">>
      [] content = "longheading" -> <<"#", " ">> \o [i \in 1..501 |-> "x"] \o <<"\n">>
      [] content = "deep" ->
            [i \in 1..201 |-> IF i = 1 THEN "a" ELSE IF i % 2 = 0 THEN "." ELSE "b"]
      [] OTHER -> <<>>

\* str.strip() and the \s of re
Whitespace == { " ", "\n", "\t", "\r" }

\* the length of the longest prefix, and of the longest suffix, of s made of
\* characters of the set cs
Span(s, cs) ==
    IF \A i \in 1..Len(s) : s[i] \in cs THEN Len(s)
    ELSE (CHOOSE i \in 1..Len(s) : s[i] \notin cs /\ \A j \in 1..(i - 1) : s[j] \in cs) - 1

Strip(s) ==
    LET reversed == [i \in 1..Len(s) |-> s[Len(s) + 1 - i]]
    IN SubSeq(s, Span(s, Whitespace) + 1, Len(s) - Span(reversed, Whitespace))

\* re.match(r"^#{1,6}\s+(.+)", text).group(1), None without a match: one to
\* six "#", white space, then the rest of that line
HeadingGroup(text) ==
    LET hashes == Span(text, {"#"})
        rest == SubSeq(text, hashes + 1, Len(text))
        blanks == Span(rest, Whitespace)
        line == SubSeq(rest, blanks + 1, Len(rest))
    IN IF hashes \in 1..6 /\ blanks >= 1 /\ line # <<>>
       THEN Some(SubSeq(line, 1, Span(line, { line[i] : i \in 1..Len(line) } \ {"\n"})))
       ELSE None

\* re.search(r"[.!?]\s", text): the 1-based position of the match, 0 without
SentenceEnd(text) ==
    LET ends == { i \in 1..(Len(text) - 1) :
                    text[i] \in { ".", "!", "?" } /\ text[i + 1] \in Whitespace }
    IN IF ends = {} THEN 0 ELSE CHOOSE i \in ends : \A j \in ends : i <= j

max_chars == 160

\* summarise_text as it would be with first.start() <= max_chars
summarise_text_Inclusive(raw) ==
    LET text == Strip(raw)
        heading == HeadingGroup(text)
        first == SentenceEnd(text)
    IN IF heading # None THEN heading[1]
       ELSE IF first # 0 /\ first - 1 <= max_chars THEN Strip(SubSeq(text, 1, first + 1))
       ELSE IF Len(text) > max_chars THEN Append(Take(text, max_chars), Ellipsis)
       ELSE text

\* file_analysis_agent.summarise_text(text, max_chars=160)
summarise_text(raw) ==
    LET text == Strip(raw)
        heading == HeadingGroup(text)
        first == SentenceEnd(text)
    IN IF heading # None THEN heading[1]
       ELSE IF first # 0 /\ first - 1 < max_chars THEN Strip(SubSeq(text, 1, first + 1))
       ELSE IF Len(text) > max_chars THEN Append(Take(text, max_chars), Ellipsis)
       ELSE text

\* json.loads(raw) followed by ", ".join(list(obj)[:5]): the keys of the
\* object, or the exception either call raises
json_keys(content) ==
    IF content = "json" THEN [raised |-> FALSE, keys |-> <<<<"n", "a", "m", "e">>>>]
    ELSE [raised |-> TRUE, keys |-> <<>>]

\* ast.parse(raw): the top-level classes and functions of the module, a
\* SyntaxError, or the RecursionError of a source nested too deeply
ast_parse(content) ==
    CASE content = "python" -> [outcome |-> "module", classes |-> <<>>, funcs |-> <<<<"r", "u", "n">>>>]
      [] content \in { "json", "longheading", "empty" } ->
            [outcome |-> "module", classes |-> <<>>, funcs |-> <<>>]
      [] content = "deep" -> [outcome |-> "RecursionError", classes |-> <<>>, funcs |-> <<>>]
      [] OTHER -> [outcome |-> "SyntaxError", classes |-> <<>>, funcs |-> <<>>]

(***************************************************************************)
(* The file system below the working directory                             *)
(***************************************************************************)
\* the member whose bytes a path of the extracted tree holds: the last
\* member of the archive written to that path
MemberAt(path, up) ==
    LET idx == { i \in 1..Len(up.members) :
                   ~IsDirMember(up.members[i]) /\ ExtractedPath(up.members[i]) = path }
    IN up.members[CHOOSE i \in idx : \A j \in idx : j <= i]

\* the bytes of a file as looks_binary meets them: whether open() and read()
\* succeed, and the bytes of the file
FileBytes(readable, bytes) == [readable |-> readable, bytes |-> bytes]

\* looks_binary as it would be with ratio >= 0.30
looks_binary_bytes_AtLeast(file) ==
    LET chunk == Take(file.bytes, 1024)
        non_printable == Cardinality({ i \in 1..Len(chunk) : chunk[i] \in { NUL, "^H", "^N", "^_" } })
    IN IF ~file.readable THEN TRUE
       ELSE IF chunk = <<>> THEN FALSE
       ELSE 100 * non_printable >= 30 * Len(chunk)

\* file_io_tool.looks_binary(path, sample=1024) on the bytes of the file:
\* a read error counts as binary, an empty file as text, and otherwise the
\* bytes b < 9 or 13 < b < 32 of the first 1024 are counted
looks_binary_bytes(file) ==
    LET \* the value of a byte: the control characters of the model, every
        \* other character being printable
        b(c) == CASE c = NUL -> 0 [] c = "^H" -> 8 [] c = "\t" -> 9 [] c = "\n" -> 10
                  [] c = "\r" -> 13 [] c = "^N" -> 14 [] c = "^_" -> 31 [] c = " " -> 32
                  [] OTHER -> 120
        chunk == Take(file.bytes, 1024)
        non_printable == Cardinality({ i \in 1..Len(chunk) :
                                         b(chunk[i]) < 9 \/ (13 < b(chunk[i]) /\ b(chunk[i]) < 32) })
    IN IF ~file.readable THEN TRUE
       ELSE IF chunk = <<>> THEN FALSE
       ELSE 100 * non_printable > 30 * Len(chunk)

\* looks_binary(path) for a path of the working directory
looks_binary(path, files, up) ==
    looks_binary_bytes(IF path \in files
                       THEN FileBytes(TRUE, FileText(MemberAt(path, up).content))
                       ELSE FileBytes(FALSE, <<>>))

ASSET_EXTS ==
    { <<".", "p", "n", "g">>,
    <<".", "j", "p", "g">>,
    <<".", "j", "p", "e", "g">>,
    <<".", "g", "i", "f">>,
    <<".", "p", "d", "f">>,
    <<".", "m", "p", "4">>,
    <<".", "i", "c", "o">> }

ASSET_SKIP_EXTS == ASSET_EXTS

HighSignalStems ==
    { <<"r", "e", "a", "d", "m", "e">>,
    <<"l", "i", "c", "e", "n", "s", "e">>,
    <<"s", "e", "t", "u", "p">>,
    <<"p", "y", "p", "r", "o", "j", "e", "c", "t">>,
    <<"p", "a", "c", "k", "a", "g", "e">>,
    <<"r", "e", "q", "u", "i", "r", "e", "m", "e", "n", "t", "s">>,
    <<"d", "o", "c", "k", "e", "r", "f", "i", "l", "e">>,
    <<"c", "o", "m", "p", "o", "s", "e">>,
    <<"m", "a", "k", "e", "f", "i", "l", "e">>,
    <<"m", "a", "i", "n">>,
    <<"a", "p", "p">> }

SourceExts ==
    { <<".", "p", "y">>,
    <<".", "j", "s">>,
    <<".", "j", "s", "o", "n">>,
    <<".", "y", "m", "l">>,
    <<".", "y", "a", "m", "l">>,
    <<".", "t", "o", "m", "l">>,
    <<".", "s", "h">> }

DocExts == { <<".", "m", "d">>,
           <<".", "r", "s", "t">>,
           <<".", "t", "x", "t">> }

\* priority_score as it would be without lower() on the stem
priority_score_CaseSensitive(path) ==
    LET stem == PathStem(path)
        ext == LowerStr(PathSuffix(path))
    IN IF stem \in HighSignalStems THEN 100
       ELSE IF ext \in SourceExts THEN 80
       ELSE IF ext \in DocExts THEN 70
       ELSE 10

\* priority_score as it would be with the extension rules tried first
priority_score_ExtFirst(path) ==
    LET stem == LowerStr(PathStem(path))
        ext == LowerStr(PathSuffix(path))
    IN IF ext \in SourceExts THEN 80
       ELSE IF ext \in DocExts THEN 70
       ELSE IF stem \in HighSignalStems THEN 100
       ELSE 10

\* file_io_tool.priority_score
priority_score(path) ==
    LET stem == LowerStr(PathStem(path))
        ext == LowerStr(PathSuffix(path))
    IN IF stem \in HighSignalStems THEN 100
       ELSE IF ext \in SourceExts THEN 80
       ELSE IF ext \in DocExts THEN 70
       ELSE 10

(***************************************************************************)
(* FileTriageAgent                                                         *)
(***************************************************************************)
TriageInit == [queue |-> <<>>, extraction_done |-> FALSE]

\* _handle_file as it would be without the return after FileSkipped
TriageHandleFile_SkipAndQueue(st, path, files, up) ==
    [st |-> [st EXCEPT !.queue = Append(@, <<priority_score(path), path>>)],
     out |-> IF looks_binary(path, files, up) \/ LowerStr(PathSuffix(path)) \in ASSET_SKIP_EXTS
             THEN <<Ev("FileSkipped", [path |-> path, reason |-> "binary/asset"])>>
             ELSE <<>>]

\* _handle_file
TriageHandleFile(st, path, files, up) ==
    IF looks_binary(path, files, up) \/ LowerStr(PathSuffix(path)) \in ASSET_SKIP_EXTS
    THEN [st |-> st,
          out |-> <<Ev("FileSkipped", [path |-> path, reason |-> "binary/asset"])>>]
    ELSE [st |-> [st EXCEPT !.queue = Append(@, <<priority_score(path), path>>)],
          out |-> <<>>]

\* sorted(self._queue, key=lambda t: -t[0])
ScoreOrder(a, b) == -a[1] < -b[1]

\* _flush_queue as it would be if an empty queue ended it early
TriageFlush_SilentWhenEmpty(st) ==
    LET sorted == StableSort(st.queue, ScoreOrder) IN
    IF st.queue = <<>> THEN <<>>
    ELSE [i \in 1..Len(sorted) |->
             Ev("FileForAnalysis", [path |-> sorted[i][2], score |-> priority_score(sorted[i][2])])]
         \o <<Ev("TriageComplete", NoPayload)>>

\* _flush_queue as it would be with sorted(self._queue, key=lambda t: t[0])[::-1]
TriageFlush_Reversed(st) ==
    LET up == StableSort(st.queue, LAMBDA a, b : a[1] < b[1])
        sorted == [i \in 1..Len(up) |-> up[Len(up) + 1 - i]]
    IN [i \in 1..Len(sorted) |->
           Ev("FileForAnalysis", [path |-> sorted[i][2], score |-> priority_score(sorted[i][2])])]
       \o <<Ev("TriageComplete", NoPayload)>>

\* _flush_queue
TriageFlush(st) ==
    LET sorted == StableSort(st.queue, ScoreOrder) IN
    [i \in 1..Len(sorted) |->
        Ev("FileForAnalysis", [path |-> sorted[i][2], score |-> priority_score(sorted[i][2])])]
    \o <<Ev("TriageComplete", NoPayload)>>

FileTriageHandle(st, ev, files, up) ==
    IF ev.type = "FileDiscovered" THEN TriageHandleFile(st, ev.payload.path, files, up)
    ELSE IF ev.type = "ExtractionDone"
    THEN [st |-> [st EXCEPT !.extraction_done = TRUE],
          out |-> TriageFlush([st EXCEPT !.extraction_done = TRUE])]
    ELSE [st |-> st, out |-> <<>>]

(***************************************************************************)
(* FileAnalysisAgent                                                       *)
(***************************************************************************)
AnalysisInit == [base_dir |-> None, results |-> <<>>]

Analysis(rel, kind, summary) == [rel_path |-> rel, kind |-> kind, summary |-> summary]

\* analyse_file(path, base): rel_path is str(path.relative_to(base)).
\* raised tells that ast.parse left analyse_file with an exception other
\* than the SyntaxError it catches.  (The PyYAML branch needs a .yml or
\* .yaml suffix, which no file of the model has.)
analyse_file(path, base, files, up) ==
    LET rel == Flatten(RelativeTo(path, base), <<"/">>)
        ext == LowerStr(PathSuffix(path))
        \* read_text_safe: the body of the file, "empty" when it cannot be read
        raw == IF path \notin files THEN "empty" ELSE MemberAt(path, up).content
        \* "; ".join(parts) of the Python summary
        PythonSummary(module) ==
            <<"P", "y", "t", "h", "o", "n">>
            \o (IF module.classes # <<>>
                THEN <<";", " ">> \o <<"c", "l", "a", "s", "s", "e", "s", "=">> \o Flatten(Take(module.classes, 3), <<",", " ">>) ELSE <<>>)
            \o (IF module.funcs # <<>>
                THEN <<";", " ">> \o <<"f", "u", "n", "c", "s", "=">> \o Flatten(Take(module.funcs, 3), <<",", " ">>) ELSE <<>>)
        fallback == Analysis(rel, "text", summarise_text(FileText(raw)))
    IN IF ext \in ASSET_EXTS
       THEN [raised |-> FALSE, result |-> Analysis(rel, "asset", <<"(", "b", "i", "n", "a", "r", "y", " ", "s", "k", "i", "p", "p", "e", "d", ")">>)]
       ELSE IF ext = <<".", "j", "s", "o", "n">> /\ ~json_keys(raw).raised
       THEN [raised |-> FALSE,
             result |-> Analysis(rel, "json",
                                 <<"J", "S", "O", "N", " ", "w", "i", "t", "h", " ", "k", "e", "y", "s", ":", " ">> \o Flatten(Take(json_keys(raw).keys, 5), <<",", " ">>))]
       ELSE IF ext = <<".", "p", "y">> /\ ast_parse(raw).outcome = "module"
       THEN [raised |-> FALSE, result |-> Analysis(rel, "python", PythonSummary(ast_parse(raw)))]
       ELSE IF ext = <<".", "p", "y">> /\ ast_parse(raw).outcome # "SyntaxError"
       THEN [raised |-> TRUE, result |-> fallback]
       ELSE [raised |-> FALSE, result |-> fallback]

\* handle() as it would be if _analyse emitted AnalysisComplete ahead of
\* every result
FileAnalysisHandle_CompleteFirst(st, ev, files, up) ==
    IF ev.type = "FileForAnalysis"
    THEN LET path == ev.payload.path
             base == IF st.base_dir # None THEN st.base_dir[1] ELSE (IF path = <<>> THEN <<>> ELSE Front(path))
         IN IF ~IsDescendant(path, base) \/ analyse_file(path, base, files, up).raised
            THEN [st |-> st, out |-> <<>>, store |-> None, raised |-> TRUE]
            ELSE LET result == analyse_file(path, base, files, up).result IN
                 [st |-> [st EXCEPT !.results = Append(@, result)],
                  out |-> <<Ev("AnalysisComplete", NoPayload), Ev("FileAnalysed", result)>>,
                  store |-> None, raised |-> FALSE]
    ELSE IF ev.type = "ExtractionDone"
    THEN [st |-> [st EXCEPT !.base_dir = Some(ev.payload.base_dir)],
          out |-> <<>>, store |-> None, raised |-> FALSE]
    ELSE IF ev.type = "TriageComplete"
    THEN [st |-> st, out |-> <<Ev("AnalysisComplete", NoPayload)>>,
          store |-> Some(st.results), raised |-> FALSE]
    ELSE [st |-> st, out |-> <<>>, store |-> None, raised |-> FALSE]

\* handle() as it would be if _analyse emitted the result without keeping it
FileAnalysisHandle_NoAppend(st, ev, files, up) ==
    IF ev.type = "FileForAnalysis"
    THEN LET path == ev.payload.path
             base == IF st.base_dir # None THEN st.base_dir[1] ELSE (IF path = <<>> THEN <<>> ELSE Front(path))
         IN IF ~IsDescendant(path, base) \/ analyse_file(path, base, files, up).raised
            THEN [st |-> st, out |-> <<>>, store |-> None, raised |-> TRUE]
            ELSE [st |-> st,
                  out |-> <<Ev("FileAnalysed", analyse_file(path, base, files, up).result)>>,
                  store |-> None, raised |-> FALSE]
    ELSE IF ev.type = "ExtractionDone"
    THEN [st |-> [st EXCEPT !.base_dir = Some(ev.payload.base_dir)],
          out |-> <<>>, store |-> None, raised |-> FALSE]
    ELSE IF ev.type = "TriageComplete"
    THEN [st |-> st, out |-> <<Ev("AnalysisComplete", NoPayload)>>,
          store |-> Some(st.results), raised |-> FALSE]
    ELSE [st |-> st, out |-> <<>>, store |-> None, raised |-> FALSE]

\* handle(): FileForAnalysis -> _analyse, ExtractionDone, TriageComplete -> _finalise.
\* path.relative_to(base) raises ValueError when base is no prefix of path.
FileAnalysisHandle(st, ev, files, up) ==
    IF ev.type = "FileForAnalysis"
    THEN LET path == ev.payload.path
             base == IF st.base_dir # None THEN st.base_dir[1] ELSE (IF path = <<>> THEN <<>> ELSE Front(path))
         IN IF ~IsDescendant(path, base) \/ analyse_file(path, base, files, up).raised
            THEN [st |-> st, out |-> <<>>, store |-> None, raised |-> TRUE]
            ELSE LET result == analyse_file(path, base, files, up).result IN
                 [st |-> [st EXCEPT !.results = Append(@, result)],
                  out |-> <<Ev("FileAnalysed", result)>>, store |-> None, raised |-> FALSE]
    ELSE IF ev.type = "ExtractionDone"
    THEN [st |-> [st EXCEPT !.base_dir = Some(ev.payload.base_dir)],
          out |-> <<>>, store |-> None, raised |-> FALSE]
    ELSE IF ev.type = "TriageComplete"
    THEN [st |-> st, out |-> <<Ev("AnalysisComplete", NoPayload)>>,
          store |-> Some(st.results), raised |-> FALSE]
    ELSE [st |-> st, out |-> <<>>, store |-> None, raised |-> FALSE]

(***************************************************************************)
(* TreeBuilderAgent                                                        *)
(***************************************************************************)
TreeInit == [paths |-> <<>>, base_dir |-> None]

TreeKey == "project_tree.txt"

SummaryKey == "project_summary.txt"

SummariesKey == "file_summaries.json"

\* the inner loop as it would be without the look-up in node_map
RECURSIVE AddParts_NoMap(_, _, _)
AddParts_NoMap(nodes, parts, idx) ==
    IF idx > Len(parts) THEN nodes
    ELSE LET key == SubSeq(parts, 1, idx)
             label == IF idx < Len(parts) THEN parts[idx] \o <<"/">> ELSE parts[idx]
         IN AddParts_NoMap(Append(nodes, [key |-> key, label |-> label]), parts, idx + 1)

\* the inner loop of add_branches over the parts of one relative path
RECURSIVE AddParts(_, _, _)
AddParts(nodes, parts, idx) ==
    IF idx > Len(parts) THEN nodes
    ELSE LET key == SubSeq(parts, 1, idx)
             label == IF idx < Len(parts) THEN parts[idx] \o <<"/">> ELSE parts[idx]
         IN AddParts(IF key \in { nodes[i].key : i \in 1..Len(nodes) } THEN nodes
                     ELSE Append(nodes, [key |-> key, label |-> label]),
                     parts, idx + 1)

RECURSIVE AddPaths(_, _, _)
AddPaths(nodes, paths, base) ==
    IF paths = <<>> THEN nodes
    ELSE AddPaths(AddParts(nodes, RelativeTo(Head(paths), base), 1), Tail(paths), base)

add_branches(paths, base) ==
    LET \* key=lambda p: (len(p.relative_to(base_dir).parts), p.name)
        DepthNameOrder(p, q) ==
            \/ Len(RelativeTo(p, base)) < Len(RelativeTo(q, base))
            \/ /\ Len(RelativeTo(p, base)) = Len(RelativeTo(q, base))
               /\ StrLess(PathName(p), PathName(q))
    IN AddPaths(<<>>, StableSort(paths, DepthNameOrder), base)

ChildrenOf(nodes, key) == SelectSeq(nodes, LAMBDA n : Front(n.key) = key)

\* console.print(tree); console.export_text(): one line per node, depth first,
\* the children of a node in the order they were added
RECURSIVE RenderNodes(_, _, _)
RenderNodes(nodes, kids, depth) ==
    IF kids = <<>> THEN <<>>
    ELSE <<[depth |-> depth, label |-> Head(kids).label]>>
         \o RenderNodes(nodes, ChildrenOf(nodes, Head(kids).key), depth + 1)
         \o RenderNodes(nodes, Tail(kids), depth)

RenderTree(paths, base) ==
    LET nodes == add_branches(paths, base) IN
    <<[depth |-> 0, label |-> PathName(base) \o <<"/">>]>>
    \o RenderNodes(nodes, ChildrenOf(nodes, <<>>), 1)

\* handle() as it would be if _build_and_emit_tree emitted TreeBuilt without
\* writing project_tree.txt
TreeBuilderHandle_NoStore(st, ev) ==
    IF ev.type = "FileDiscovered"
    THEN [st |-> [st EXCEPT !.paths = Append(@, ev.payload.path)],
          out |-> <<>>, store |-> None, raised |-> FALSE]
    ELSE IF ev.type = "ExtractionDone"
    THEN [st |-> [st EXCEPT !.base_dir = Some(ev.payload.base_dir)],
          out |-> <<Ev("TreeBuilt", [tree_path |-> TreeKey])>>,
          store |-> None, raised |-> FALSE]
    ELSE [st |-> st, out |-> <<>>, store |-> None, raised |-> FALSE]

\* handle(): FileDiscovered appends, ExtractionDone -> _build_and_emit_tree
TreeBuilderHandle(st, ev) ==
    IF ev.type = "FileDiscovered"
    THEN [st |-> [st EXCEPT !.paths = Append(@, ev.payload.path)],
          out |-> <<>>, store |-> None, raised |-> FALSE]
    ELSE IF ev.type = "ExtractionDone"
    THEN LET base == ev.payload.base_dir
             st2 == [st EXCEPT !.base_dir = Some(base)]
         IN IF \E i \in 1..Len(st.paths) : ~IsDescendant(st.paths[i], base)
            THEN [st |-> st2, out |-> <<>>, store |-> None, raised |-> TRUE]
            ELSE [st |-> st2,
                  out |-> <<Ev("TreeBuilt", [tree_path |-> TreeKey])>>,
                  store |-> Some(RenderTree(st.paths, base)), raised |-> FALSE]
    ELSE [st |-> st, out |-> <<>>, store |-> None, raised |-> FALSE]

(***************************************************************************)
(* language_detector.synthesise_project                                    *)
(***************************************************************************)
AnyPath(fs, P(_)) == \E i \in 1..Len(fs) : P(LowerStr(fs[i].rel_path))

guess_stack(fs) ==
    IF AnyPath(fs, LAMBDA p : EndsWith(p, <<"s", "e", "t", "u", "p", ".", "p", "y">>) \/ EndsWith(p, <<"p", "y", "p", "r", "o", "j", "e", "c", "t", ".", "t", "o", "m", "l">>))
    THEN "Python package"
    ELSE IF AnyPath(fs, LAMBDA p : EndsWith(p, <<"p", "a", "c", "k", "a", "g", "e", ".", "j", "s", "o", "n">>)) THEN "Node.js project"
    ELSE IF AnyPath(fs, LAMBDA p : EndsWith(p, <<"d", "o", "c", "k", "e", "r", "f", "i", "l", "e">>)) THEN "Containerized service"
    ELSE IF AnyPath(fs, LAMBDA p : EndsWith(p, <<"g", "o", ".", "m", "o", "d">>)) THEN "Go module"
    ELSE IF AnyPath(fs, LAMBDA p : EndsWith(p, <<"p", "o", "m", ".", "x", "m", "l">>)) THEN "Java Maven project"
    ELSE "Unknown or mixed-language project"

KindCount(fs, k) == Cardinality({ i \in 1..Len(fs) : fs[i].kind = k })

\* Counter(...).most_common(1)[0]: the largest count; among equal counts the
\* kind that was counted first
detect_dominant_language(fs) ==
    IF fs = <<>> THEN <<"unknown", 0>>
    ELSE LET best == CHOOSE i \in 1..Len(fs) :
                       /\ \A j \in 1..Len(fs) : KindCount(fs, fs[j].kind) <= KindCount(fs, fs[i].kind)
                       /\ \A j \in 1..(i - 1) : KindCount(fs, fs[j].kind) < KindCount(fs, fs[i].kind)
         IN <<fs[best].kind, KindCount(fs, fs[best].kind)>>

IsReadme(e) == IsPrefix(<<"r", "e", "a", "d", "m", "e">>, LowerStr(e.rel_path)) /\ e.kind = "text"

find_readme_first_line(fs) ==
    IF \E i \in 1..Len(fs) : IsReadme(fs[i])
    THEN LET summary == fs[CHOOSE i \in 1..Len(fs) :
                              IsReadme(fs[i]) /\ \A j \in 1..(i - 1) : ~IsReadme(fs[j])].summary
             \* summary.rstrip(".")
             dots == Span([i \in 1..Len(summary) |-> summary[Len(summary) + 1 - i]], {"."})
         IN Some(SubSeq(summary, 1, Len(summary) - dots) \o <<".">>)
    ELSE None

\* the draft, as the list of the sentences it is joined from
synthesise_project(fs, tree_text) ==
    [readme |-> find_readme_first_line(fs),
     dominant |-> detect_dominant_language(fs),
     stack |-> guess_stack(fs),
     has_docker |-> AnyPath(fs, LAMBDA p : EndsWith(p, <<"d", "o", "c", "k", "e", "r", "f", "i", "l", "e">>)),
     has_setup |-> AnyPath(fs, LAMBDA p : EndsWith(p, <<"s", "e", "t", "u", "p", ".", "p", "y">>) \/ EndsWith(p, <<"p", "y", "p", "r", "o", "j", "e", "c", "t", ".", "t", "o", "m", "l">>)),
     has_pkgjson |-> AnyPath(fs, LAMBDA p : EndsWith(p, <<"p", "a", "c", "k", "a", "g", "e", ".", "j", "s", "o", "n">>))]

max_summary_length == 300

\* " ".join(parts): the sentences of the draft d as one text
joined_parts(d) ==
    LET Chars(str) ==
            CASE str = "text" -> <<"t", "e", "x", "t">>
              [] str = "python" -> <<"p", "y", "t", "h", "o", "n">>
              [] str = "json" -> <<"j", "s", "o", "n">>
              [] str = "asset" -> <<"a", "s", "s", "e", "t">>
              [] str = "yaml" -> <<"y", "a", "m", "l">>
              [] str = "unknown" -> <<"u", "n", "k", "n", "o", "w", "n">>
              [] str = "Python package" -> <<"P", "y", "t", "h", "o", "n", " ", "p", "a", "c", "k", "a", "g", "e">>
              [] str = "Node.js project" -> <<"N", "o", "d", "e", ".", "j", "s", " ", "p", "r", "o", "j", "e", "c", "t">>
              [] str = "Containerized service" -> <<"C", "o", "n", "t", "a", "i", "n", "e", "r", "i", "z", "e", "d", " ", "s", "e", "r", "v", "i", "c", "e">>
              [] str = "Go module" -> <<"G", "o", " ", "m", "o", "d", "u", "l", "e">>
              [] str = "Java Maven project" -> <<"J", "a", "v", "a", " ", "M", "a", "v", "e", "n", " ", "p", "r", "o", "j", "e", "c", "t">>
              [] str = "Unknown or mixed-language project" -> <<"U", "n", "k", "n", "o", "w", "n", " ", "o", "r", " ", "m", "i", "x", "e", "d", "-", "l", "a", "n", "g", "u", "a", "g", "e", " ", "p", "r", "o", "j", "e", "c", "t">>
        Digits(n) == LET digit == <<"0", "1", "2", "3", "4", "5", "6", "7", "8", "9">>
                     IN IF n < 10 THEN <<digit[n + 1]>>
                        ELSE <<digit[((n \div 10) % 10) + 1], digit[(n % 10) + 1]>>
        parts ==
            (IF d.readme # None /\ d.readme[1] # <<>> THEN <<d.readme[1]>> ELSE <<>>)
            \o << <<"T", "h", "e", " ", "d", "o", "m", "i", "n", "a", "n", "t", " ", "f", "i", "l", "e", " ", "t", "y", "p", "e", " ", "i", "s", " ", "*">> \o Chars(d.dominant[1])
                  \o <<"*", " ", "(", "c", "o", "u", "n", "t", ":", " ">> \o Digits(d.dominant[2]) \o <<")", ".">> >>
            \o << <<"I", "n", "f", "e", "r", "r", "e", "d", " ", "t", "e", "c", "h", " ", "s", "t", "a", "c", "k", ":", " ">> \o Chars(d.stack) \o <<".">> >>
            \o (IF d.has_docker THEN << <<"P", "r", "e", "s", "e", "n", "c", "e", " ", "o", "f", " ", "a", " ", "D", "o", "c", "k", "e", "r", "f", "i", "l", "e", " ", "s", "u", "g", "g", "e", "s", "t", "s", " ", "c", "o", "n", "t", "a", "i", "n", "e", "r", "i", "z", "e", "d", " ", "d", "e", "p", "l", "o", "y", "m", "e", "n", "t", ".">> >> ELSE <<>>)
            \o (IF d.has_setup THEN << <<"P", "a", "c", "k", "a", "g", "i", "n", "g", " ", "m", "e", "t", "a", "d", "a", "t", "a", " ", "i", "n", "d", "i", "c", "a", "t", "e", "s", " ", "a", " ", "P", "y", "t", "h", "o", "n", " ", "p", "a", "c", "k", "a", "g", "e", ".">> >> ELSE <<>>)
            \o (IF d.has_pkgjson THEN << <<"I", "n", "c", "l", "u", "d", "i", "n", "g", " ", "'", "p", "a", "c", "k", "a", "g", "e", ".", "j", "s", "o", "n", "'", " ", "r", "e", "v", "e", "a", "l", "s", " ", "a", " ", "N", "o", "d", "e", ".", "j", "s", " ", "c", "o", "m", "p", "o", "n", "e", "n", "t", ".">> >> ELSE <<>>)
    IN Flatten(parts, <<" ">>)

\* the truncation as it would be with summary[:max_summary_length] + "…"
summary_text_CutAtLimit(d) ==
    LET summary == joined_parts(d)
        cut == Take(summary, max_summary_length)
        trailing == Span([i \in 1..Len(cut) |-> cut[Len(cut) + 1 - i]], Whitespace)
    IN IF Len(summary) > max_summary_length
       THEN Append(SubSeq(cut, 1, Len(cut) - trailing), Ellipsis)
       ELSE summary

\* the text synthesise_project returns for the draft d: the joined text, cut
\* to max_summary_length - 1 characters, stripped on the right and ended
\* with "…" when it is longer than max_summary_length
summary_text(d) ==
    LET summary == joined_parts(d)
        cut == Take(summary, max_summary_length - 1)
        trailing == Span([i \in 1..Len(cut) |-> cut[Len(cut) + 1 - i]], Whitespace)
    IN IF Len(summary) > max_summary_length
       THEN Append(SubSeq(cut, 1, Len(cut) - trailing), Ellipsis)
       ELSE summary

(***************************************************************************)
(* SummarySynthesizerAgent                                                 *)
(***************************************************************************)
SynthInit == [tree_text |-> None, analyses |-> <<>>, analysis_done |-> FALSE]

EmptyMemory == [k \in { TreeKey, SummariesKey, SummaryKey } |-> None]

\* self.memory.get(key, "")
MemGet(m, key) == IF key \in DOMAIN m /\ m[key] # None THEN m[key][1] ELSE <<>>

\* bool(self._tree_text): neither None nor ""
TreeTextSet(st) == st.tree_text # None /\ st.tree_text[1] # <<>>

\* llm_router.generate_completion under one configuration: the back-end the
\* model id names, whether its credentials are set, whether OLLAMA_URL is
\* set, and whether the HTTP call succeeds
generate_completion(cfg) ==
    IF cfg.backend \in { "openai", "watsonx" }
    THEN IF ~cfg.credentials THEN "RuntimeError: API key env var missing"
         ELSE IF ~cfg.http_ok THEN "error of the HTTP call"
         ELSE "reply"
    ELSE IF cfg.backend = "ollama" \/ cfg.ollama_url
    THEN IF ~cfg.http_ok THEN "error of the HTTP call" ELSE "reply"
    ELSE "RuntimeError: Unknown LLM back-end"

\* whether the call in _polish returns (TRUE) or raises (FALSE)
PolishCalls ==
    { generate_completion(cfg) = "reply" :
        cfg \in [backend : { "openai", "watsonx", "ollama", "other" },
                 credentials : BOOLEAN, ollama_url : BOOLEAN, http_ok : BOOLEAN] }

\* _polish as it would be if the except branch returned an empty text
polish_blank(raw, llm_ok) == IF llm_ok THEN [polished |-> raw] ELSE [polished |-> <<>>]

\* _polish: the reply of generate_completion, or raw when the call raises
polish(raw, llm_ok) == IF llm_ok THEN [polished |-> raw] ELSE raw

\* the finalize step as it would be with SummaryPolished emitted before the
\* polished text is stored
Finalize_EmitBeforeStore(st, m, llm_ok) ==
    LET draft == synthesise_project(st.analyses, st.tree_text)
        polished == polish(draft, llm_ok)
    IN [st |-> st,
        mem |-> [m EXCEPT ![SummaryKey] = Some(polished)],
        steps |-> << Ev("ProjectDraft", [draft |-> draft, text |-> summary_text(draft)]),
                     Ev("call:polish", [raw |-> draft, returned |-> llm_ok]),
                     Ev("SummaryPolished", [summary_path |-> SummaryKey]),
                     Ev("store:project_summary.txt", [text |-> polished]) >>]

\* the finalize step of _maybe_finish
Finalize(st, m, llm_ok) ==
    LET draft == synthesise_project(st.analyses, st.tree_text)
        polished == polish(draft, llm_ok)
    IN [st |-> st,
        mem |-> [m EXCEPT ![SummaryKey] = Some(polished)],
        steps |-> << Ev("ProjectDraft", [draft |-> draft, text |-> summary_text(draft)]),
                     Ev("call:polish", [raw |-> draft, returned |-> llm_ok]),
                     Ev("store:project_summary.txt", [text |-> polished]),
                     Ev("SummaryPolished", [summary_path |-> SummaryKey]) >>]

\* _maybe_finish as it would be with "or" in place of "and"
maybe_finish_either(st, m, llm_ok) ==
    IF ~(st.analysis_done \/ TreeTextSet(st))
    THEN [st |-> st, mem |-> m, steps |-> <<>>]
    ELSE Finalize(st, m, llm_ok)

\* _maybe_finish
maybe_finish(st, m, llm_ok) ==
    IF ~(st.analysis_done /\ TreeTextSet(st))
    THEN [st |-> st, mem |-> m, steps |-> <<>>]
    ELSE Finalize(st, m, llm_ok)

\* handle() as it would be if AnalysisComplete only set the flag
SummarySynthesizerHandle_FlagOnly(st, ev, m, llm_ok) ==
    IF ev.type = "TreeBuilt"
    THEN maybe_finish([st EXCEPT !.tree_text = Some(MemGet(m, ev.payload.tree_path))],
                      m, llm_ok)
    ELSE IF ev.type = "FileAnalysed"
    THEN [st |-> [st EXCEPT !.analyses = Append(@, ev.payload)], mem |-> m, steps |-> <<>>]
    ELSE IF ev.type = "AnalysisComplete"
    THEN [st |-> [st EXCEPT !.analysis_done = TRUE], mem |-> m, steps |-> <<>>]
    ELSE [st |-> st, mem |-> m, steps |-> <<>>]

\* handle() as it would be if TreeBuilt only loaded the tree text
SummarySynthesizerHandle_LoadOnly(st, ev, m, llm_ok) ==
    IF ev.type = "TreeBuilt"
    THEN [st |-> [st EXCEPT !.tree_text = Some(MemGet(m, ev.payload.tree_path))],
          mem |-> m, steps |-> <<>>]
    ELSE IF ev.type = "FileAnalysed"
    THEN [st |-> [st EXCEPT !.analyses = Append(@, ev.payload)], mem |-> m, steps |-> <<>>]
    ELSE IF ev.type = "AnalysisComplete"
    THEN maybe_finish([st EXCEPT !.analysis_done = TRUE], m, llm_ok)
    ELSE [st |-> st, mem |-> m, steps |-> <<>>]

\* handle()
SummarySynthesizerHandle(st, ev, m, llm_ok) ==
    IF ev.type = "TreeBuilt"
    THEN maybe_finish([st EXCEPT !.tree_text = Some(MemGet(m, ev.payload.tree_path))],
                      m, llm_ok)
    ELSE IF ev.type = "FileAnalysed"
    THEN [st |-> [st EXCEPT !.analyses = Append(@, ev.payload)], mem |-> m, steps |-> <<>>]
    ELSE IF ev.type = "AnalysisComplete"
    THEN maybe_finish([st EXCEPT !.analysis_done = TRUE], m, llm_ok)
    ELSE [st |-> st, mem |-> m, steps |-> <<>>]

(***************************************************************************)
(* ExtractionAgent                                                         *)
(***************************************************************************)
ExtractionInit == [tmp_dir |-> None]

\* removals counts the shutil.rmtree calls
FsInit == [tmp_exists |-> FALSE, files |-> {}, written |-> {}, removals |-> 0]

DELETE_TEMP_AFTER_RUN == TRUE

\* the orders in which os.walk can list a set of files
Orders(files) ==
    { s \in [1..Cardinality(files) -> files] : \A i, j \in DOMAIN s : i # j => s[i] # s[j] }

\* ExtractOnValid as it would be without the return in the except branch
ExtractOnValid_NoReturn(st, disk, up, order) ==
    LET r == safe_extract(up)
        disk2 == [tmp_exists |-> r.tmp_created, files |-> r.files, written |-> r.written,
                  removals |-> disk.removals]
    IN [st |-> [st EXCEPT !.tmp_dir = Some(TmpDir)], fs |-> disk2,
        out |-> (IF r.exc # None
                 THEN <<Ev("ExtractionFailed", [reason |-> r.exc[1]])>> ELSE <<>>)
                \o [i \in 1..Len(order) |-> Ev("FileDiscovered", [path |-> order[i]])]
                \o <<Ev("ExtractionDone", [base_dir |-> TmpDir])>>]

\* ExtractOnValid as it would be if ExtractionDone were emitted before the walk
ExtractOnValid_DoneFirst(st, disk, up, order) ==
    LET r == safe_extract(up)
        disk2 == [tmp_exists |-> r.tmp_created, files |-> r.files, written |-> r.written,
                  removals |-> disk.removals]
    IN IF r.exc # None
       THEN [st |-> st, fs |-> disk2,
             out |-> <<Ev("ExtractionFailed", [reason |-> r.exc[1]])>>]
       ELSE [st |-> [st EXCEPT !.tmp_dir = Some(TmpDir)], fs |-> disk2,
             out |-> <<Ev("ExtractionDone", [base_dir |-> TmpDir])>>
                     \o [i \in 1..Len(order) |-> Ev("FileDiscovered", [path |-> order[i]])]]

\* handle() for a ZipValid event: order is the order in which os.walk lists
\* the extracted files
ExtractOnValid(st, disk, up, order) ==
    LET r == safe_extract(up)
        disk2 == [tmp_exists |-> r.tmp_created, files |-> r.files, written |-> r.written,
                  removals |-> disk.removals]
    IN IF r.exc # None
       THEN [st |-> st, fs |-> disk2,
             out |-> <<Ev("ExtractionFailed", [reason |-> r.exc[1]])>>]
       ELSE [st |-> [st EXCEPT !.tmp_dir = Some(TmpDir)], fs |-> disk2,
             out |-> [i \in 1..Len(order) |-> Ev("FileDiscovered", [path |-> order[i]])]
                     \o <<Ev("ExtractionDone", [base_dir |-> TmpDir])>>]

\* ExtractionHandle as it would be if it reacted to both verdicts
ExtractionHandle_AnyVerdict(st, ev, disk, up, order) ==
    IF ev.type \notin { "ZipValid", "ZipInvalid" } THEN [st |-> st, fs |-> disk, out |-> <<>>]
    ELSE ExtractOnValid(st, disk, up, order)

\* handle(): every event but ZipValid is ignored
ExtractionHandle(st, ev, disk, up, order) ==
    IF ev.type # "ZipValid" THEN [st |-> st, fs |-> disk, out |-> <<>>]
    ELSE ExtractOnValid(st, disk, up, order)

\* on_shutdown()
on_shutdown(st, disk) ==
    IF st.tmp_dir # None /\ DELETE_TEMP_AFTER_RUN
    THEN [tmp_exists |-> FALSE, files |-> {}, written |-> disk.written,
          removals |-> disk.removals + 1]
    ELSE disk

(***************************************************************************)
(* The callers of the pipeline: workflows.run_workflow and                 *)
(* WorkflowService.run                                                     *)
(***************************************************************************)
\* json.loads(mem.get("file_summaries.json", "[]"))
json_loads(stored) == IF stored = None THEN <<>> ELSE stored[1]

Raise(exc) == [kind |-> "raise", exc |-> exc]

\* the artifact set; tree_text and project_summary are None for ""
Artifacts(tree, summaries, summary) ==
    [kind |-> "return", tree_text |-> tree, file_summaries |-> summaries,
     project_summary |-> summary]

\* run_workflow(zip_path): stat() and the size check come before the run
\* and read only the upload; the return value is read from the memory the
\* run left
run_workflow(up, m) ==
    IF ~up.exists THEN Raise("FileNotFoundError")
    ELSE IF up.st_size > ZIP_SIZE_LIMIT_MB * MiB THEN Raise("ValueError")
    ELSE Artifacts(m[TreeKey], json_loads(m[SummariesKey]), m[SummaryKey])

\* _extract_results: one item that fails validation empties the list
extract_results(m) ==
    LET data == json_loads(m[SummariesKey])
        \* FileAnalysisResult(**item): strings are stripped, rel_path has at
        \* least one character, kind is a domain.models.FileKind, summary has
        \* at most 500 characters
        ValidItem(item) ==
            /\ Len(Strip(item.rel_path)) >= 1
            /\ item.kind \in { "python", "javascript", "typescript", "json", "yaml", "markdown",
                                "text", "asset", "config", "documentation", "unknown" }
            /\ Len(Strip(item.summary)) <= 500
        FileAnalysisResult(item) == [item EXCEPT !.rel_path = Strip(@), !.summary = Strip(@)]
    IN
    Artifacts(m[TreeKey],
              IF \A i \in 1..Len(data) : ValidItem(data[i])
              THEN [i \in 1..Len(data) |-> FileAnalysisResult(data[i])]
              ELSE <<>>,
              m[SummaryKey])

\* _validate_zip_size as it would be with >= in place of >
validate_zip_size_AtLeast(up) ==
    IF ~up.exists THEN Some("FileNotFoundError")
    ELSE IF up.st_size >= ZIP_SIZE_LIMIT_MB * MiB THEN Some("FileSizeLimitError")
    ELSE None

\* WorkflowService._validate_zip_size: the exception it raises, None when it
\* returns.  stat() raises for a file that does not exist;
\* settings.zip_size_limit_bytes is zip_size_limit_mb * 1_048_576, and
\* zip_size_limit_mb has the default of ZIP_SIZE_LIMIT_MB.
validate_zip_size(up) ==
    IF ~up.exists THEN Some("FileNotFoundError")
    ELSE IF up.st_size > ZIP_SIZE_LIMIT_MB * MiB THEN Some("FileSizeLimitError")
    ELSE None

\* WorkflowService.run(zip_path)
WorkflowService_run(up, m) ==
    IF validate_zip_size(up) # None THEN Raise(validate_zip_size(up)[1])
    ELSE extract_results(m)

\* what the two callers get for one run.  An exception that left a handle()
\* call either was swallowed by the workflow engine or comes out of
\* wf.run(): both are possible outcomes.
RunResults(up, m, failed) ==
    { [run_workflow |-> run_workflow(up, m), service |-> WorkflowService_run(up, m)] }
    \cup (IF failed = {} \/ ~up.exists \/ up.st_size > ZIP_SIZE_LIMIT_MB * MiB THEN {}
          ELSE { [run_workflow |-> Raise("agent exception"),
                  service |-> Raise("WorkflowError")] })

(***************************************************************************)
(* State                                                                   *)
(***************************************************************************)
VARIABLES
    upload,     \* the file at zip_path
    phase,      \* where the run is: "init", "running", "stopped"
    chan,       \* the events in flight on every link, oldest first
    log,        \* every event emitted and every finalize step, in order
    delivered,  \* the events handed to the summary synthesizer, in order
    crashed,    \* the agents whose handle() ended with an uncaught exception
    fs,         \* the working directory on disk
    ext,        \* ExtractionAgent
    tri,        \* FileTriageAgent
    tb,         \* TreeBuilderAgent
    an,         \* FileAnalysisAgent
    syn,        \* SummarySynthesizerAgent
    mem,        \* the memory dictionary of the workflow
    twin,       \* a second synthesizer with its memory and log
    result,     \* what the caller of the run got back, None while it runs
    job         \* the job of the web application the run belongs to, None without one

vars == <<upload, phase, chan, log, delivered, crashed, fs, ext, tri, tb, an, syn, mem, twin, result, job>>

agents == <<ext, tri, tb, an, syn>>

\* "workflows copy.py": wf.emit("NewUpload") and the wf.link(...) calls
Links ==
    { <<"caller", "zip_validator">>,
      <<"zip_validator", "extraction">>,
      <<"extraction", "tree_builder">>,
      <<"extraction", "file_triage">>,
      <<"file_triage", "file_analysis">>,
      <<"tree_builder", "summary_synthesizer">>,
      <<"file_analysis", "summary_synthesizer">> }

\* the events of evs appended to every link that leaves agent from
Sent(c, from, evs) ==
    [l \in Links |-> IF l[1] = from THEN c[l] \o evs ELSE c[l]]

Received(c, l) == [c EXCEPT ![l] = Tail(@)]

TwinInit == [syn |-> SynthInit, mem |-> EmptyMemory, log |-> <<>>]

Init ==
    /\ upload \in Uploads
    /\ phase = "init"
    /\ chan = [l \in Links |-> <<>>]
    /\ log = <<>>
    /\ delivered = <<>>
    /\ crashed = {}
    /\ fs = FsInit
    /\ ext = ExtractionInit
    /\ tri = TriageInit
    /\ tb = TreeInit
    /\ an = AnalysisInit
    /\ syn = SynthInit
    /\ mem = EmptyMemory
    /\ twin = TwinInit
    /\ result = None
    /\ job = None

(***************************************************************************)
(* The run of the pipeline                                                 *)
(***************************************************************************)
\* the caller emits NewUpload
EmitNewUpload ==
    /\ phase = "init"
    /\ phase' = "running"
    /\ LET ev == Ev("NewUpload", [zip_path |-> ZipPath]) IN
       /\ chan' = Sent(chan, "caller", <<ev>>)
       /\ log' = Append(log, ev)
    /\ UNCHANGED <<upload, delivered, crashed, fs, agents, mem, twin, result, job>>

ZipValidatorStep ==
    LET l == <<"caller", "zip_validator">> IN
    /\ phase = "running"
    /\ chan[l] # <<>>
    /\ LET r == ZipValidatorHandle(Head(chan[l]), upload) IN
       /\ chan' = Sent(Received(chan, l), "zip_validator", r.out)
       /\ log' = log \o r.out
       /\ crashed' = IF r.raised THEN crashed \cup {"zip_validator"} ELSE crashed
    /\ UNCHANGED <<upload, phase, delivered, fs, agents, mem, twin, result, job>>

ExtractionStep ==
    LET l == <<"zip_validator", "extraction">> IN
    /\ phase = "running"
    /\ chan[l] # <<>>
    /\ \E order \in Orders(safe_extract(upload).files) :
         LET r == ExtractionHandle(ext, Head(chan[l]), fs, upload, order) IN
         /\ ext' = r.st
         /\ fs' = r.fs
         /\ chan' = Sent(Received(chan, l), "extraction", r.out)
         /\ log' = log \o r.out
    /\ UNCHANGED <<upload, phase, delivered, crashed, tri, tb, an, syn, mem, twin, result, job>>

FileTriageStep ==
    LET l == <<"extraction", "file_triage">> IN
    /\ phase = "running"
    /\ chan[l] # <<>>
    /\ LET r == FileTriageHandle(tri, Head(chan[l]), fs.files, upload) IN
       /\ tri' = r.st
       /\ chan' = Sent(Received(chan, l), "file_triage", r.out)
       /\ log' = log \o r.out
    /\ UNCHANGED <<upload, phase, delivered, crashed, fs, ext, tb, an, syn, mem, twin, result, job>>

TreeBuilderStep ==
    LET l == <<"extraction", "tree_builder">> IN
    /\ phase = "running"
    /\ chan[l] # <<>>
    /\ LET r == TreeBuilderHandle(tb, Head(chan[l])) IN
       /\ tb' = r.st
       /\ mem' = IF r.store # None THEN [mem EXCEPT ![TreeKey] = r.store] ELSE mem
       /\ chan' = Sent(Received(chan, l), "tree_builder", r.out)
       /\ log' = log \o r.out
       /\ crashed' = IF r.raised THEN crashed \cup {"tree_builder"} ELSE crashed
    /\ UNCHANGED <<upload, phase, delivered, fs, ext, tri, an, syn, twin, result, job>>

FileAnalysisStep ==
    LET l == <<"file_triage", "file_analysis">> IN
    /\ phase = "running"
    /\ chan[l] # <<>>
    /\ LET r == FileAnalysisHandle(an, Head(chan[l]), fs.files, upload) IN
       /\ an' = r.st
       /\ mem' = IF r.store # None THEN [mem EXCEPT ![SummariesKey] = r.store] ELSE mem
       /\ chan' = Sent(Received(chan, l), "file_analysis", r.out)
       /\ log' = log \o r.out
       /\ crashed' = IF r.raised THEN crashed \cup {"file_analysis"} ELSE crashed
    /\ UNCHANGED <<upload, phase, delivered, fs, ext, tri, tb, syn, twin, result, job>>

\* the synthesizer takes the next event of one of its two incoming links
SummarySynthesizerStep ==
    \E from \in { "tree_builder", "file_analysis" } :
      LET l == <<from, "summary_synthesizer">> IN
      /\ phase = "running"
      /\ chan[l] # <<>>
      /\ \E llm_ok \in PolishCalls :
           LET r == SummarySynthesizerHandle(syn, Head(chan[l]), mem, llm_ok) IN
           /\ syn' = r.st
           /\ mem' = r.mem
           /\ log' = log \o r.steps
      /\ chan' = Received(chan, l)
      /\ delivered' = Append(delivered, Head(chan[l]))
      /\ UNCHANGED <<upload, phase, crashed, fs, ext, tri, tb, an, twin, result, job>>

\* the workflow stops once no event is in flight: ExtractionAgent.on_shutdown
\* runs, wf.run() returns and the caller reads the memory
Shutdown ==
    /\ phase = "running"
    /\ \A l \in Links : chan[l] = <<>>
    /\ phase' = "stopped"
    /\ fs' = on_shutdown(ext, fs)
    /\ \E r \in RunResults(upload, mem, crashed) : result' = Some(r)
    /\ UNCHANGED <<upload, chan, log, delivered, crashed, agents, mem, twin, job>>

Next ==
    \/ EmitNewUpload
    \/ ZipValidatorStep
    \/ ExtractionStep
    \/ FileTriageStep
    \/ TreeBuilderStep
    \/ FileAnalysisStep
    \/ SummarySynthesizerStep
    \/ Shutdown

Spec == Init /\ [][Next]_vars

(***************************************************************************)
(* A run through WorkflowService.run: the size check comes first, and only *)
(* when it returns is the workflow created (its manifest is taken to be    *)
(* in place) and NewUpload handed to it                                    *)
(***************************************************************************)
InitService ==
    /\ upload \in Uploads
    /\ phase = "called"
    /\ chan = [l \in Links |-> <<>>]
    /\ log = <<>>
    /\ delivered = <<>>
    /\ crashed = {}
    /\ fs = FsInit
    /\ ext = ExtractionInit
    /\ tri = TriageInit
    /\ tb = TreeInit
    /\ an = AnalysisInit
    /\ syn = SynthInit
    /\ mem = EmptyMemory
    /\ twin = TwinInit
    /\ result = None
    /\ job = None

\* run(): self._validate_zip_size(zip_path), lines 97-98
ServiceCall ==
    /\ phase = "called"
    /\ IF validate_zip_size(upload) # None
       THEN /\ phase' = "stopped"
            /\ result' = Some([run_workflow |-> run_workflow(upload, mem),
                               service |-> WorkflowService_run(upload, mem)])
       ELSE /\ phase' = "init"
            /\ result' = result
    /\ UNCHANGED <<upload, chan, log, delivered, crashed, fs, agents, mem, twin, job>>

NextService == ServiceCall \/ Next

SpecService == InitService /\ [][NextService]_vars

(***************************************************************************)
(* The pipeline on well-formed archives of text, source and asset files    *)
(***************************************************************************)

InitScenario ==
    /\ upload \in { Upload(TRUE, 1000, TRUE, TRUE, ms) : ms \in ScenarioLists }
    /\ phase = "init"
    /\ chan = [l \in Links |-> <<>>]
    /\ log = <<>>
    /\ delivered = <<>>
    /\ crashed = {}
    /\ fs = FsInit
    /\ ext = ExtractionInit
    /\ tri = TriageInit
    /\ tb = TreeInit
    /\ an = AnalysisInit
    /\ syn = SynthInit
    /\ mem = EmptyMemory
    /\ twin = TwinInit
    /\ result = None
    /\ job = None

SpecScenario == InitScenario /\ [][Next]_vars

(***************************************************************************)
(* The extraction agent alone: a ZipValid event for any upload             *)
(***************************************************************************)
InitExtract ==
    /\ upload \in Uploads
    /\ phase = "extract"
    /\ chan = [l \in Links |-> <<>>]
    /\ log = <<>>
    /\ delivered = <<>>
    /\ crashed = {}
    /\ fs = FsInit
    /\ ext = ExtractionInit
    /\ tri = TriageInit
    /\ tb = TreeInit
    /\ an = AnalysisInit
    /\ syn = SynthInit
    /\ mem = EmptyMemory
    /\ twin = TwinInit
    /\ result = None
    /\ job = None

DeliverZipValid ==
    /\ phase = "extract"
    /\ phase' = "extracted"
    /\ \E order \in Orders(safe_extract(upload).files) :
         LET r == ExtractionHandle(ext, Ev("ZipValid", [zip_path |-> ZipPath]), fs, upload, order) IN
         /\ ext' = r.st
         /\ fs' = r.fs
         /\ log' = log \o r.out
    /\ UNCHANGED <<upload, chan, delivered, crashed, tri, tb, an, syn, mem, twin, result, job>>

ExtractShutdown ==
    /\ phase = "extracted"
    /\ phase' = "stopped"
    /\ fs' = on_shutdown(ext, fs)
    /\ UNCHANGED <<upload, chan, log, delivered, crashed, agents, mem, twin, result, job>>

NextExtract == DeliverZipValid \/ ExtractShutdown

SpecExtract == InitExtract /\ [][NextExtract]_vars

(***************************************************************************)
(* The summary synthesizer alone: any sequence of its three events         *)
(***************************************************************************)
\* the result the analysis agent reports for one member extracted alone
AnalysisOf(m) ==
    analyse_file(ExtractedPath(m), TmpDir, {ExtractedPath(m)},
                 Upload(TRUE, 1000, TRUE, TRUE, <<m>>)).result

\* the last one is a README whose first line is a heading of 501 characters
SampleResults ==
    { AnalysisOf(M_readme), AnalysisOf(M_main), AnalysisOf(M_notes),
      AnalysisOf(Member(<<"R", "E", "A", "D", "M", "E">>, 10, TRUE, FALSE, "longheading")) }

\* trees the tree builder has stored when it emits TreeBuilt
SampleTrees ==
    { RenderTree(<<>>, TmpDir), RenderTree(<<ExtractedPath(M_notes)>>, TmpDir) }

InitSynth ==
    /\ upload = Upload(TRUE, 1000, TRUE, TRUE, <<>>)
    /\ phase = "synth"
    /\ chan = [l \in Links |-> <<>>]
    /\ log = <<>>
    /\ delivered = <<>>
    /\ crashed = {}
    /\ fs = FsInit
    /\ ext = ExtractionInit
    /\ tri = TriageInit
    /\ tb = TreeInit
    /\ an = AnalysisInit
    /\ syn = SynthInit
    /\ \E t \in SampleTrees : mem = [EmptyMemory EXCEPT ![TreeKey] = Some(t)]
    /\ twin = TwinInit
    /\ result = None
    /\ job = None

Deliver(ev) ==
    /\ phase = "synth"
    /\ Len(delivered) < MaxDeliveries
    /\ \E llm_ok \in PolishCalls :
         LET r == SummarySynthesizerHandle(syn, ev, mem, llm_ok) IN
         /\ syn' = r.st
         /\ mem' = r.mem
         /\ log' = log \o r.steps
    /\ delivered' = Append(delivered, ev)
    /\ UNCHANGED <<upload, phase, chan, crashed, fs, ext, tri, tb, an, twin, result, job>>

DeliverTreeBuilt == Deliver(Ev("TreeBuilt", [tree_path |-> TreeKey]))

DeliverFileAnalysed == \E res \in SampleResults : Deliver(Ev("FileAnalysed", res))

DeliverAnalysisComplete == Deliver(Ev("AnalysisComplete", NoPayload))

NextSynth == DeliverTreeBuilt \/ DeliverFileAnalysed \/ DeliverAnalysisComplete

SpecSynth == InitSynth /\ [][NextSynth]_vars

(***************************************************************************)
(* Two synthesizers that get the same FileAnalysed events and then the two *)
(* completion events in opposite orders, with the same polish collaborator *)
(***************************************************************************)
InitBarrier ==
    /\ upload = Upload(TRUE, 1000, TRUE, TRUE, <<>>)
    /\ phase = "feeding"
    /\ chan = [l \in Links |-> <<>>]
    /\ log = <<>>
    /\ delivered = <<>>
    /\ crashed = {}
    /\ fs = FsInit
    /\ ext = ExtractionInit
    /\ tri = TriageInit
    /\ tb = TreeInit
    /\ an = AnalysisInit
    /\ syn = SynthInit
    /\ \E t \in SampleTrees : mem = [EmptyMemory EXCEPT ![TreeKey] = Some(t)]
    /\ twin = [syn |-> SynthInit, mem |-> mem, log |-> <<>>]
    /\ result = None
    /\ job = None

\* ev1 goes to the first synthesizer, ev2 to the second
DeliverBoth(ev1, ev2, llm_ok) ==
    LET r1 == SummarySynthesizerHandle(syn, ev1, mem, llm_ok)
        r2 == SummarySynthesizerHandle(twin.syn, ev2, twin.mem, llm_ok)
    IN /\ syn' = r1.st
       /\ mem' = r1.mem
       /\ log' = log \o r1.steps
       /\ twin' = [syn |-> r2.st, mem |-> r2.mem, log |-> twin.log \o r2.steps]
       /\ delivered' = Append(delivered, ev1)
       /\ UNCHANGED <<upload, chan, crashed, fs, ext, tri, tb, an, result, job>>

BarrierFeed ==
    /\ phase = "feeding"
    /\ Len(delivered) < MaxDeliveries
    /\ phase' = phase
    /\ \E res \in SampleResults :
         DeliverBoth(Ev("FileAnalysed", res), Ev("FileAnalysed", res), TRUE)

BarrierFirstLeg ==
    /\ phase = "feeding"
    /\ phase' = "half"
    /\ \E llm_ok \in PolishCalls :
         DeliverBoth(Ev("TreeBuilt", [tree_path |-> TreeKey]),
                     Ev("AnalysisComplete", NoPayload), llm_ok)

BarrierSecondLeg ==
    /\ phase = "half"
    /\ phase' = "joined"
    /\ \E llm_ok \in PolishCalls :
         DeliverBoth(Ev("AnalysisComplete", NoPayload),
                     Ev("TreeBuilt", [tree_path |-> TreeKey]), llm_ok)

NextBarrier == BarrierFeed \/ BarrierFirstLeg \/ BarrierSecondLeg

SpecBarrier == InitBarrier /\ [][NextBarrier]_vars

(***************************************************************************)
(* The triage agent and the tree builder alone, after an archive was       *)
(* extracted: any sequence of FileDiscovered and ExtractionDone events,    *)
(* each handed to both agents as the two links that leave the extraction   *)
(* agent do                                                                *)
(***************************************************************************)
InitIntake ==
    /\ upload \in { Upload(TRUE, 1000, TRUE, TRUE, ms) : ms \in { l \in ScenarioLists : Len(l) >= 3 } }
    /\ phase = "intake"
    /\ chan = [l \in Links |-> <<>>]
    /\ log = <<>>
    /\ delivered = <<>>
    /\ crashed = {}
    /\ fs = [tmp_exists |-> TRUE, files |-> safe_extract(upload).files,
             written |-> safe_extract(upload).written, removals |-> 0]
    /\ ext = [tmp_dir |-> Some(TmpDir)]
    /\ tri = TriageInit
    /\ tb = TreeInit
    /\ an = AnalysisInit
    /\ syn = SynthInit
    /\ mem = EmptyMemory
    /\ twin = TwinInit
    /\ result = None
    /\ job = None

Intake(ev) ==
    /\ phase = "intake"
    /\ Len(delivered) < MaxDeliveries
    /\ LET r == FileTriageHandle(tri, ev, fs.files, upload)
           t == TreeBuilderHandle(tb, ev)
       IN /\ tri' = r.st
          /\ tb' = t.st
          /\ mem' = IF t.store # None THEN [mem EXCEPT ![TreeKey] = t.store] ELSE mem
          /\ log' = log \o r.out \o t.out
    /\ delivered' = Append(delivered, ev)
    /\ UNCHANGED <<upload, phase, chan, crashed, fs, ext, an, syn, twin, result, job>>

DeliverFileDiscovered == \E path \in fs.files : Intake(Ev("FileDiscovered", [path |-> path]))

DeliverExtractionDone == Intake(Ev("ExtractionDone", [base_dir |-> TmpDir]))

NextIntake == DeliverFileDiscovered \/ DeliverExtractionDone

SpecIntake == InitIntake /\ [][NextIntake]_vars

(***************************************************************************)
(* looks_binary alone, called on one file: upload is that file             *)
(***************************************************************************)
\* files of 10 and 20 bytes that begin or end with n copies of one byte,
\* files around the sample size, an empty file and one that cannot be read
SampleFiles ==
    LET Run(c, n) == [i \in 1..n |-> c]
        marks == { NUL, "^H", "\t", "\r", "^N", "^_", " " }
    IN { FileBytes(FALSE, <<>>), FileBytes(TRUE, <<>>),
         FileBytes(TRUE, Run(NUL, 307) \o Run("x", 717)),
         FileBytes(TRUE, Run(NUL, 308) \o Run("x", 716)),
         FileBytes(TRUE, Run(NUL, 308) \o Run("x", 1692)),
         FileBytes(TRUE, Run("x", 1024) \o Run(NUL, 976)) }
       \cup { FileBytes(TRUE, Run(c, n) \o Run("x", len - n)) :
                c \in marks, n \in 0..7, len \in { 10, 20 } }
       \cup { FileBytes(TRUE, Run("x", len - n) \o Run(c, n)) :
                c \in marks, n \in 0..7, len \in { 10, 20 } }

InitBinary ==
    /\ upload \in SampleFiles
    /\ phase = "probe"
    /\ chan = [l \in Links |-> <<>>]
    /\ log = <<>>
    /\ delivered = <<>>
    /\ crashed = {}
    /\ fs = FsInit
    /\ ext = ExtractionInit
    /\ tri = TriageInit
    /\ tb = TreeInit
    /\ an = AnalysisInit
    /\ syn = SynthInit
    /\ mem = EmptyMemory
    /\ twin = TwinInit
    /\ result = None
    /\ job = None

\* the call looks_binary(path)
CallLooksBinary ==
    /\ phase = "probe"
    /\ phase' = "stopped"
    /\ result' = Some(looks_binary_bytes(upload))
    /\ UNCHANGED <<upload, chan, log, delivered, crashed, fs, agents, mem, twin, job>>

SpecBinary == InitBinary /\ [][CallLooksBinary]_vars

(***************************************************************************)
(* summarise_text alone, called on one text: upload is that text           *)
(***************************************************************************)
\* texts with a sentence end around position 160, texts without one of
\* lengths around 160, bare and wrapped in white space, and first lines of
\* 0 to 7 hashes with and without white space after them
SampleTexts ==
    LET Run(c, n) == [i \in 1..n |-> c]
        more == <<"\n", "M", "o", "r", "e", ".", " ", "E", "n", "d">>
    IN { Run("x", n) \o <<".", " ">> \o Run("y", m) : n \in { 0, 5, 158, 159, 160, 161 }, m \in { 1, 200 } }
       \cup { Run("x", n) : n \in { 0, 1, 159, 160, 161, 300 } }
       \cup { <<" ", "\n">> \o Run("x", n) \o <<"\n">> : n \in { 0, 1, 159, 160, 161, 300 } }
       \cup { Run("#", h) \o sep \o body \o tail :
                h \in 0..7, sep \in { <<>>, <<" ">>, <<"\t">>, <<"\n">> },
                body \in { <<"T", "i">>, <<"G", "o", ".", " ", "O", "n">>, Run("x", 170) },
                tail \in { <<>>, more } }

InitSummary ==
    /\ upload \in { [text |-> t] : t \in SampleTexts }
    /\ phase = "probe"
    /\ chan = [l \in Links |-> <<>>]
    /\ log = <<>>
    /\ delivered = <<>>
    /\ crashed = {}
    /\ fs = FsInit
    /\ ext = ExtractionInit
    /\ tri = TriageInit
    /\ tb = TreeInit
    /\ an = AnalysisInit
    /\ syn = SynthInit
    /\ mem = EmptyMemory
    /\ twin = TwinInit
    /\ result = None
    /\ job = None

\* the call summarise_text(text)
CallSummariseText ==
    /\ phase = "probe"
    /\ phase' = "stopped"
    /\ result' = Some(summarise_text(upload.text))
    /\ UNCHANGED <<upload, chan, log, delivered, crashed, fs, agents, mem, twin, job>>

SpecSummary == InitSummary /\ [][CallSummariseText]_vars

(***************************************************************************)
(* A job of the web application: /analyse has stored the upload, made the  *)
(* job entry and its event queue, and scheduled the background task, which *)
(* runs the workflow.  app.py calls run_workflow, web/app.py calls         *)
(* analyze_codebase, that is WorkflowService.run.  queue is every message  *)
(* put on the event queue, oldest first, each as its prefix ("event",      *)
(* "error", or "close" for the message "close") and the rest of its text.  *)
(***************************************************************************)
InitJob ==
    /\ upload \in Uploads
    /\ phase = "scheduled"
    /\ chan = [l \in Links |-> <<>>]
    /\ log = <<>>
    /\ delivered = <<>>
    /\ crashed = {}
    /\ fs = FsInit
    /\ ext = ExtractionInit
    /\ tri = TriageInit
    /\ tb = TreeInit
    /\ an = AnalysisInit
    /\ syn = SynthInit
    /\ mem = EmptyMemory
    /\ twin = TwinInit
    /\ result = None
    /\ job \in { [app |-> "app.py", artefacts |-> None, status |-> None, queue |-> <<>>],
                 [app |-> "web/app.py", artefacts |-> None, status |-> Some("pending"), queue |-> <<>>] }

\* the background task up to the call of the workflow
JobStart ==
    /\ phase = "scheduled"
    /\ phase' = "init"
    /\ job' = IF job.app = "web/app.py"
              THEN [job EXCEPT !.queue = Append(@, <<"event", "ANALYSIS_STARTED">>)]
              ELSE job
    /\ UNCHANGED <<upload, chan, log, delivered, crashed, fs, agents, mem, twin, result>>

\* the background task as it would be with put_nowait("close") as the last
\* statement of the try block, not in a finally block
JobEnd_CloseInTry ==
    /\ phase = "stopped"
    /\ result # None
    /\ phase' = "closed"
    /\ LET r == IF job.app = "app.py" THEN result[1].run_workflow ELSE result[1].service
           web == job.app = "web/app.py"
       IN job' = IF r.kind = "return"
                 THEN [job EXCEPT !.artefacts = Some(r),
                                  !.status = IF web THEN Some("completed") ELSE @,
                                  !.queue = @ \o << <<"event", IF web THEN "ANALYSIS_COMPLETED" ELSE "WORKFLOW_DONE">>,
                                                   <<"close", "">> >>]
                 ELSE [job EXCEPT !.artefacts = Some([error |-> r.exc]),
                                  !.status = IF web THEN Some("failed") ELSE @,
                                  !.queue = @ \o << <<"error", r.exc>> >>]
    /\ UNCHANGED <<upload, chan, log, delivered, crashed, fs, agents, mem, twin, result>>

\* the background task from the return or the exception of the workflow on:
\* the rest of the try block or the except block, then the finally block.
\* No await separates these statements.
JobEnd ==
    /\ phase = "stopped"
    /\ result # None
    /\ phase' = "closed"
    /\ LET r == IF job.app = "app.py" THEN result[1].run_workflow ELSE result[1].service
           web == job.app = "web/app.py"
       IN job' = IF r.kind = "return"
                 THEN [job EXCEPT !.artefacts = Some(r),
                                  !.status = IF web THEN Some("completed") ELSE @,
                                  !.queue = @ \o << <<"event", IF web THEN "ANALYSIS_COMPLETED" ELSE "WORKFLOW_DONE">>,
                                                   <<"close", "">> >>]
                 ELSE [job EXCEPT !.artefacts = Some([error |-> r.exc]),
                                  !.status = IF web THEN Some("failed") ELSE @,
                                  !.queue = @ \o << <<"error", r.exc>>, <<"close", "">> >>]
    /\ UNCHANGED <<upload, chan, log, delivered, crashed, fs, agents, mem, twin, result>>

NextJob == JobStart \/ Next \/ JobEnd

SpecJob == InitJob /\ [][NextJob]_vars

(***************************************************************************)
(* Properties                                                              *)
(***************************************************************************)
Has(evs, t) == Count(evs, t) >= 1

Verdicts(evs) == SelectSeq(evs, LAMBDA e : e.type \in { "ZipValid", "ZipInvalid" })

FinalizeSteps == { "ProjectDraft", "call:polish", "store:project_summary.txt", "SummaryPolished" }

\* C1: whatever TreeBuilt, FileAnalysed and AnalysisComplete events reach the
\* synthesizer, repeated ones included, each step of finalize (ProjectDraft,
\* the polish call, the store of project_summary.txt, SummaryPolished)
\* happens at most once.
C1_FinalizeAtMostOnce == \A t \in FinalizeSteps : Count(log, t) <= 1

\* C2: the synthesizer emits ProjectDraft or SummaryPolished, or calls
\* polish, only after it has received a TreeBuilt and an AnalysisComplete
\* event; with one of the two missing it stays silent.
C2_NoFinalizeBeforeBoth ==
    (\E i \in 1..Len(log) : log[i].type \in { "ProjectDraft", "SummaryPolished", "call:polish" })
        => Has(delivered, "TreeBuilt") /\ Has(delivered, "AnalysisComplete")

\* C2 witness: two TreeBuilt and a FileAnalysed received, no AnalysisComplete,
\* and the synthesizer has done nothing
C2_Waiting ==
    /\ phase = "synth"
    /\ Count(delivered, "TreeBuilt") >= 2
    /\ Has(delivered, "FileAnalysed")
    /\ ~Has(delivered, "AnalysisComplete")
    /\ log = <<>>

\* C3: once TreeBuilt and AnalysisComplete have both been delivered, in
\* either order, finalize has run: ProjectDraft and after it SummaryPolished
\* are emitted and project_summary.txt is stored.
C3_BothDeliveredFinalizes ==
    (Has(delivered, "TreeBuilt") /\ Has(delivered, "AnalysisComplete"))
        => /\ \E i, j \in 1..Len(log) :
                i < j /\ log[i].type = "ProjectDraft" /\ log[j].type = "SummaryPolished"
           /\ mem[SummaryKey] # None

\* C3 witness: AnalysisComplete arrived first, TreeBuilt second, and the
\* summary is out
C3_CompleteThenTree ==
    /\ phase = "synth"
    /\ Len(delivered) = 2
    /\ delivered[1].type = "AnalysisComplete"
    /\ delivered[2].type = "TreeBuilt"
    /\ Has(log, "SummaryPolished")

\* C4: after the same FileAnalysed events, TreeBuilt then AnalysisComplete
\* (first synthesizer) and AnalysisComplete then TreeBuilt (second
\* synthesizer) each run finalize exactly once, with the same draft and the
\* same stored project summary.
C4_OrderIndependent ==
    phase = "joined"
        => /\ \A t \in FinalizeSteps : Count(log, t) = 1 /\ Count(twin.log, t) = 1
           /\ log = twin.log
           /\ mem[SummaryKey] # None
           /\ mem[SummaryKey] = twin.mem[SummaryKey]

\* C4 witness: both orders have been played after two FileAnalysed events
C4_BothOrdersPlayed ==
    /\ phase = "joined"
    /\ Len(syn.analyses) = 2
    /\ syn.analyses = twin.syn.analyses
    /\ Has(twin.log, "SummaryPolished")

\* C5: when a member's resolved target is no descendant of the working
\* directory (by path segments), safe_extract raises before extractall: the
\* agent emits ExtractionFailed and no member is written.
C5_EscapingMemberAborts ==
    (phase # "extract"
     /\ \E i \in 1..Len(upload.members) : ~IsDescendant(Target(upload.members[i]), TmpDir))
        => Count(log, "ExtractionFailed") = 1 /\ fs.written = {}

\* C6: a member is written only when every member of the archive has passed
\* the size check (file_size <= MAX_MEMBER_SIZE_MB * 1,048,576) and the
\* path check of the loop; one oversize member aborts before any write.
C6_ChecksBeforeWrites ==
    /\ fs.written # {}
         => \A i \in 1..Len(upload.members) :
              /\ upload.members[i].file_size <= MAX_MEMBER_SIZE_MB * 1048576
              /\ ~IllegalPath(upload.members[i])
    /\ (phase # "extract"
        /\ \E i \in 1..Len(upload.members) :
             upload.members[i].file_size > MAX_MEMBER_SIZE_MB * 1048576)
         => fs.written = {} /\ Count(log, "ExtractionFailed") = 1

\* C6 witness: the second member is the oversize one, the first is fine,
\* and nothing was written
C6_LaterMemberOversize ==
    /\ phase = "extracted"
    /\ upload.members = <<M_readme, M_big>>
    /\ Has(log, "ExtractionFailed")
    /\ fs.written = {}

\* C7: once ExtractionFailed has been emitted, the working directory made
\* for that extraction does not exist any more.
C7_FailedLeavesNoDirectory == Has(log, "ExtractionFailed") => ~fs.tmp_exists

\* C8: when safe_extract fails, the agent emits one ExtractionFailed with the
\* reason and nothing else: no FileDiscovered, no ExtractionDone.
C8_FailureEmitsOnlyExtractionFailed ==
    (phase # "extract" /\ safe_extract(upload).exc # None)
        => /\ Count(log, "ExtractionFailed") = 1
           /\ ~Has(log, "FileDiscovered")
           /\ ~Has(log, "ExtractionDone")
           /\ \A i \in 1..Len(log) :
                log[i].type = "ExtractionFailed"
                    => log[i].payload.reason = safe_extract(upload).exc[1]

\* C8 witness: a run that stopped after a path-confinement failure
C8_FailedRun ==
    /\ phase = "stopped"
    /\ Len(log) = 1
    /\ log[1].type = "ExtractionFailed"
    /\ log[1].payload.reason.msg = "Illegal file path detected"

\* the verdict the four checks call for, in their order
ExpectedVerdict(up) ==
    IF ~up.exists THEN {"File does not exist"}
    ELSE IF up.st_size > ZIP_SIZE_LIMIT_MB * 1048576 THEN {"Archive exceeds limit"}
    ELSE IF ~up.eocd \/ ~up.readable THEN {"Not a ZIP archive", "ZIP read error"}
    ELSE IF \E i \in 1..Len(up.members) : ~up.members[i].crc_ok THEN {"CRC error in member"}
    ELSE {}

\* C9: for every NewUpload the validator emits exactly one verdict: ZipInvalid
\* with the reason of the first failing check (missing, too large, no ZIP
\* container, CRC failure), or ZipValid when the four checks pass.
C9_ExactlyOneVerdict ==
    (phase # "init" /\ chan[<<"caller", "zip_validator">>] = <<>>)
        => /\ Len(Verdicts(log)) = 1
           /\ IF ExpectedVerdict(upload) = {}
              THEN Verdicts(log)[1].type = "ZipValid"
              ELSE /\ Verdicts(log)[1].type = "ZipInvalid"
                   /\ Verdicts(log)[1].payload.reason.msg \in ExpectedVerdict(upload)

\* C10: ZipInvalid is the last event of its run: no event of any type is
\* emitted after it, and there is no second verdict.
C10_InvalidIsTerminal ==
    \A i \in 1..Len(log) :
        log[i].type = "ZipInvalid"
            => i = Len(log) /\ Len(Verdicts(log)) = 1

\* C10 witness: a run that stopped after a CRC verdict
C10_StoppedAfterInvalid ==
    /\ phase = "stopped"
    /\ Has(log, "ZipInvalid")
    /\ Last(log).payload.reason.msg = "CRC error in member"

(***************************************************************************)
(* Properties of the callers, the triage and the analysis                  *)
(***************************************************************************)
Of(evs, t) == SelectSeq(evs, LAMBDA e : e.type = t)

PathsOf(evs, t) == { Of(evs, t)[i].payload.path : i \in 1..Len(Of(evs, t)) }

\* the position of the FileDiscovered event of a path
Arrival(path) ==
    CHOOSE i \in 1..Len(Of(log, "FileDiscovered")) :
        Of(log, "FileDiscovered")[i].payload.path = path

\* C11: a run that ended with ZipInvalid or ExtractionFailed is reported to
\* the caller of run_workflow and of WorkflowService.run as a failure, with
\* no artifact set; an artifact set is returned (every handler having
\* returned) only when the run reached SummaryPolished.
C11_FailureIsReported ==
    result # None
        => /\ (Has(log, "ZipInvalid") \/ Has(log, "ExtractionFailed"))
                => /\ result[1].run_workflow.kind = "raise"
                   /\ result[1].service.kind = "raise"
           /\ (crashed = {}
               /\ (result[1].run_workflow.kind = "return" \/ result[1].service.kind = "return"))
                => Has(log, "SummaryPolished")

\* C12: the FileForAnalysis events come at ExtractionDone, one per queued
\* file, in non-increasing score order; files of equal score keep the order
\* in which their FileDiscovered events arrived; the score of each payload is
\* the score the file was queued and sorted with.
C12_ScoreOrderStable ==
    LET ffa == Of(log, "FileForAnalysis") IN
    /\ ffa # <<>> => tri.extraction_done
    /\ Has(log, "TriageComplete") => Len(ffa) = Len(tri.queue)
    /\ \A i, j \in 1..Len(ffa) :
         i < j => /\ ffa[i].payload.score >= ffa[j].payload.score
                  /\ ffa[i].payload.score = ffa[j].payload.score
                       => Arrival(ffa[i].payload.path) < Arrival(ffa[j].payload.path)
    /\ \A i \in 1..Len(ffa) :
         \E k \in 1..Len(tri.queue) :
            tri.queue[k] = <<ffa[i].payload.score, ffa[i].payload.path>>

\* C12 witness: main.py arrived before README, both score 100 and are
\* emitted in that order, before notes.md
C12_TieKeepsArrival ==
    LET ffa == Of(log, "FileForAnalysis") IN
    /\ Has(log, "TriageComplete")
    /\ Len(ffa) = 3
    /\ ffa[1].payload.path = ExtractedPath(M_main)
    /\ ffa[2].payload.path = ExtractedPath(S_readme)
    /\ ffa[2].payload.score > ffa[3].payload.score

\* the archive of README, main.py, notes.md and a.png
FourFiles == upload.members = <<M_png, S_readme, M_main, S_notes>>

SkippedOnlyPng ==
    /\ Count(log, "FileSkipped") = 1
    /\ PathsOf(log, "FileSkipped") = { ExtractedPath(M_png) }
    /\ ExtractedPath(M_png) \notin PathsOf(log, "FileForAnalysis")

\* C13: for README, main.py, notes.md and a.png, discovered in any order,
\* FileForAnalysis is emitted for README, main.py, notes.md in this order
\* with the scores 100, 80, 70, and a.png gets FileSkipped and no
\* FileForAnalysis.
C13_ExampleOrder ==
    LET ffa == Of(log, "FileForAnalysis") IN
    (FourFiles /\ Has(log, "TriageComplete"))
        => /\ [i \in 1..Len(ffa) |-> ffa[i].payload.path]
                = <<ExtractedPath(S_readme), ExtractedPath(M_main), ExtractedPath(S_notes)>>
           /\ [i \in 1..Len(ffa) |-> ffa[i].payload.score] = <<100, 80, 70>>
           /\ SkippedOnlyPng

\* C13 amended: README and main.py both score 100 and come first, in the
\* order in which they were discovered, then notes.md with score 70; a.png
\* gets FileSkipped and no FileForAnalysis.
C13_ExampleOrderByArrival ==
    LET ffa == Of(log, "FileForAnalysis") IN
    (FourFiles /\ Has(log, "TriageComplete"))
        => /\ Len(ffa) = 3
           /\ { ffa[1].payload.path, ffa[2].payload.path }
                = { ExtractedPath(S_readme), ExtractedPath(M_main) }
           /\ Arrival(ffa[1].payload.path) < Arrival(ffa[2].payload.path)
           /\ ffa[3].payload.path = ExtractedPath(S_notes)
           /\ [i \in 1..Len(ffa) |-> ffa[i].payload.score] = <<100, 100, 70>>
           /\ SkippedOnlyPng

\* C13 witness: the four files were triaged, a.png having arrived first
C13_FourFilesTriaged ==
    /\ FourFiles
    /\ Has(log, "TriageComplete")
    /\ Arrival(ExtractedPath(M_png)) = 1
    /\ Count(log, "FileForAnalysis") = 3

\* C14: by TriageComplete every discovered file has exactly one outcome: one
\* FileSkipped, exactly when its bytes are binary or its extension is an
\* asset extension, or else one FileForAnalysis; before that no file has both.
C14_SkipOrQueue ==
    \A p \in PathsOf(log, "FileDiscovered") :
        LET skips == Cardinality({ i \in 1..Len(log) :
                        log[i].type = "FileSkipped" /\ log[i].payload.path = p })
            sends == Cardinality({ i \in 1..Len(log) :
                        log[i].type = "FileForAnalysis" /\ log[i].payload.path = p })
        IN /\ skips + sends <= 1
           /\ Has(log, "TriageComplete")
                => /\ skips + sends = 1
                   /\ skips = 1 <=> \/ MemberAt(p, upload).content = "binary"
                                    \/ LowerStr(PathSuffix(p)) \in ASSET_EXTS

\* C14 witness: logo.png (text bytes, asset extension) was skipped and the
\* two other files were sent on
C14_AssetSkippedOthersSent ==
    /\ upload.members = <<S_logo, S_data, M_notes>>
    /\ Has(log, "TriageComplete")
    /\ PathsOf(log, "FileSkipped") = { ExtractedPath(S_logo) }
    /\ Count(log, "FileForAnalysis") = 2

\* C15: the analysis agent has emitted one FileAnalysed and recorded one
\* result for every FileForAnalysis event it has handled, whatever the file
\* holds.
C15_OneResultPerFile ==
    LET handled == Count(log, "FileForAnalysis")
                   - Count(chan[<<"file_triage", "file_analysis">>], "FileForAnalysis")
    IN /\ Count(log, "FileAnalysed") = handled
       /\ Len(an.results) = handled

\* C16: the rel_path of every FileAnalysed result is the path of an analysed
\* file relative to the working directory of ExtractionDone.
C16_RelativeToWorkingDirectory ==
    \A i \in 1..Len(log) :
        log[i].type = "FileAnalysed"
            => \E p \in PathsOf(log, "FileForAnalysis") :
                  log[i].payload.rel_path = Flatten(RelativeTo(p, TmpDir), <<"/">>)

\* the entries of a returned list that belong to the file at path p
EntriesFor(summaries, p) ==
    { i \in 1..Len(summaries) :
        EndsWith(Flatten(RelativeTo(p, TmpDir), <<"/">>), summaries[i].rel_path) }

Covers(summaries, tree) ==
    LET found == PathsOf(log, "FileDiscovered")
        skipped == PathsOf(log, "FileSkipped")
    IN /\ Len(summaries) = Cardinality(found \ skipped)
       /\ \A p \in found \ skipped : Cardinality(EntriesFor(summaries, p)) = 1
       /\ \A p \in skipped : EntriesFor(summaries, p) = {}
       /\ tree # None
       /\ \A p \in found :
            \E k \in 1..Len(tree[1]) :
               /\ tree[1][k].label = PathName(p)
               /\ tree[1][k].depth = Len(RelativeTo(p, TmpDir))

\* C17: when a run completes (SummaryPolished emitted, no handler left by an
\* exception, artifacts returned), the file_summaries each caller gets hold
\* one entry per discovered file that was not skipped and none for a skipped
\* file, and the tree holds every discovered file.
C17_SummariesCoverAnalysedFiles ==
    (result # None /\ Has(log, "SummaryPolished") /\ crashed = {})
        => /\ result[1].run_workflow.kind = "return"
           /\ Covers(result[1].run_workflow.file_summaries, result[1].run_workflow.tree_text)
           /\ result[1].service.kind = "return"
           /\ Covers(result[1].service.file_summaries, result[1].service.tree_text)

\* C18: the text stored as project_summary.txt is the reply of the polish
\* call when the call returns and the unchanged draft when it raises; in
\* both cases SummaryPolished follows.
C18_PolishOrDraft ==
    \A i \in 1..Len(log) :
        log[i].type = "call:polish"
            => /\ i + 2 <= Len(log)
               /\ log[i - 1].type = "ProjectDraft"
               /\ log[i + 1].type = "store:project_summary.txt"
               /\ log[i + 1].payload.text =
                    (IF log[i].payload.returned
                     THEN [polished |-> log[i - 1].payload.draft]
                     ELSE log[i - 1].payload.draft)
               /\ log[i + 2].type = "SummaryPolished"
               /\ i + 2 = Len(log) => mem[SummaryKey] = Some(log[i + 1].payload.text)

\* C18 witness: the polish call raised, the draft was stored and
\* SummaryPolished emitted
C18_DraftAfterFailedPolish ==
    /\ phase = "synth"
    /\ Len(log) = 4
    /\ ~log[2].payload.returned
    /\ mem[SummaryKey] = Some(log[1].payload.draft)
    /\ log[4].type = "SummaryPolished"
    /\ Len(syn.analyses) >= 1

\* C19: the summary of every FileAnalysed result has at most 500 characters.
C19_SummaryAtMost500 ==
    \A i \in 1..Len(log) :
        log[i].type = "FileAnalysed" => Len(log[i].payload.summary) <= 500

\* C20: the working directory is removed once per run, at the end of the
\* run whether it succeeded or failed, and not while a file still waits to
\* be analysed.
C20_RemovedOnceAtRunEnd ==
    /\ fs.removals <= 1
    /\ fs.removals > 0 => chan[<<"file_triage", "file_analysis">>] = <<>>
    /\ result # None
         => /\ ~fs.tmp_exists
            /\ (Has(log, "ExtractionDone") \/ Has(log, "ExtractionFailed")) => fs.removals = 1

(***************************************************************************)
(* Properties of the draft, the tree and the discovered set                *)
(***************************************************************************)
\* s with its elements at i and j exchanged
Swap(s, i, j) == [s EXCEPT ![i] = s[j], ![j] = s[i]]

\* C21: the draft does not depend on the order in which the FileAnalysed
\* results reached the synthesizer: exchanging any two of the results it
\* holds gives the same README line, dominant kind and count, and stack.
C21_DraftOrderIndependent ==
    \A i, j \in 1..Len(syn.analyses) :
        synthesise_project(Swap(syn.analyses, i, j), syn.tree_text)
            = synthesise_project(syn.analyses, syn.tree_text)

\* C22: the assembled tree does not depend on the order in which the
\* FileDiscovered events arrived: every order in which the extracted files
\* can be listed gives the nodes, in the sibling order, and the text that
\* the tree builder produced.
C22_TreeOrderIndependent ==
    mem[TreeKey] # None
        => \A order \in Orders(fs.files) :
             /\ add_branches(order, TmpDir) = add_branches(tb.paths, TmpDir)
             /\ RenderTree(order, TmpDir) = mem[TreeKey][1]

\* C23: the assembled tree has exactly one leaf node for each distinct
\* discovered path and exactly one directory node for each distinct
\* directory prefix, and no other node; a directory node comes before every
\* node beneath it; the label of a node is its last path segment, followed
\* by "/" exactly for directories.  Paths discovered more than once count
\* once.
C23_OneNodePerPathAndDirectory ==
    LET nodes == add_branches(tb.paths, TmpDir)
        leaves == { RelativeTo(tb.paths[i], TmpDir) : i \in 1..Len(tb.paths) }
        dirs == UNION { { SubSeq(r, 1, k) : k \in 1..(Len(r) - 1) } : r \in leaves }
        At(key) == { i \in 1..Len(nodes) : nodes[i].key = key }
    IN /\ \A key \in leaves \cup dirs : Cardinality(At(key)) = 1
       /\ \A i \in 1..Len(nodes) :
            /\ nodes[i].key \in leaves \cup dirs
            /\ Len(nodes[i].key) > 1
                 => \E j \in 1..(i - 1) : nodes[j].key = Front(nodes[i].key)
            /\ nodes[i].label = IF nodes[i].key \in dirs
                                THEN Last(nodes[i].key) \o <<"/">>
                                ELSE Last(nodes[i].key)
            /\ Last(Last(nodes[i].key)) # "/"

\* the tree was assembled and stored for a path list in which a file below
\* a directory was discovered twice and another file of that depth once
C23_RepeatedPathAssembled ==
    /\ phase = "intake"
    /\ mem[TreeKey] # None
    /\ \E i, j, k \in 1..Len(tb.paths) :
         /\ i # j
         /\ tb.paths[i] = tb.paths[j]
         /\ tb.paths[k] # tb.paths[i]
         /\ Len(RelativeTo(tb.paths[i], TmpDir)) = 2
         /\ Len(RelativeTo(tb.paths[k], TmpDir)) = 2
    /\ delivered[Len(delivered)].type = "ExtractionDone"

\* C24: once ExtractionDone has been handled the discovered set is closed:
\* a FileDiscovered event handled afterwards changes neither the queue of
\* the triage agent nor the path list of the tree builder, and no
\* FileForAnalysis is emitted for it.
C24_ClosedAfterExtractionDone ==
    [][(/\ tri.extraction_done
        /\ tb.base_dir # None
        /\ Len(delivered') = Len(delivered) + 1
        /\ delivered'[Len(delivered')].type = "FileDiscovered")
       => /\ tri'.queue = tri.queue
          /\ tb'.paths = tb.paths
          /\ Count(log', "FileForAnalysis") = Count(log, "FileForAnalysis")]_vars

\* C25: a successful extraction emits exactly one FileDiscovered for each
\* regular file below the working directory and none for a directory, then
\* exactly one ExtractionDone that carries the working directory; no
\* FileDiscovered follows ExtractionDone.
C25_DiscoveredThenDone ==
    LET found == Of(log, "FileDiscovered") IN
    /\ (phase \in { "extracted", "stopped" } /\ ~Has(log, "ExtractionFailed"))
         => /\ Count(log, "ExtractionDone") = 1
            /\ Of(log, "ExtractionDone")[1].payload.base_dir = TmpDir
    /\ (Has(log, "ExtractionDone") /\ fs.tmp_exists)
         => /\ \A f \in fs.files :
                 Cardinality({ i \in 1..Len(found) : found[i].payload.path = f }) = 1
            /\ \A i \in 1..Len(found) : found[i].payload.path \in fs.files
    /\ \A i \in 1..Len(found), j \in 1..Len(upload.members) :
            IsDirMember(upload.members[j])
                => found[i].payload.path # ExtractedPath(upload.members[j])
    /\ \A i, j \in 1..Len(log) :
            (log[i].type = "ExtractionDone" /\ log[j].type = "FileDiscovered") => j < i

\* an archive with a directory entry and a file below it was extracted
C25_DirectoryAndFileExtracted ==
    /\ phase = "extracted"
    /\ Has(log, "ExtractionDone")
    /\ \E j \in 1..Len(upload.members) : IsDirMember(upload.members[j])
    /\ Count(log, "FileDiscovered") = 1
    /\ fs.files = { ExtractedPath(M_notes) }

\* C27: _validate_zip_size raises FileSizeLimitError exactly when the size
\* of the file is greater than the limit in MB times 1,048,576, and
\* WorkflowService.run makes this check before the workflow is created: for
\* an oversized archive no NewUpload is emitted and no agent runs.
C27_OversizeNeverStarts ==
    LET oversized == upload.exists /\ upload.st_size > ZIP_SIZE_LIMIT_MB * 1048576 IN
    /\ phase # "called"
         => (oversized <=> (/\ result # None
                            /\ result[1].service = Raise("FileSizeLimitError")))
    /\ (upload.exists /\ ~oversized /\ phase # "called")
         => (phase \in { "init", "running" } \/ result[1].service.kind = "return" \/ crashed # {})
    /\ oversized
         => /\ log = <<>>
            /\ \A l \in Links : chan[l] = <<>>
            /\ phase \in { "called", "stopped" }
            /\ ~fs.tmp_exists

\* run() was called with an archive of exactly the limit, and the workflow
\* ran to its end
C27_LimitSizeRuns ==
    /\ upload.exists
    /\ upload.st_size = ZIP_SIZE_LIMIT_MB * 1048576
    /\ phase = "stopped"
    /\ Has(log, "SummaryPolished")
    /\ result[1].service.kind = "return"

\* C28: the score of a file is decided by its name alone, by the first rule
\* that matches: 100 for a lower-cased stem in the high-signal set, else 80
\* for a source or configuration extension, else 70 for a documentation
\* extension, else 10.  Every FileForAnalysis carries that score, and the
\* queue of the triage agent holds it.
C28_ScoreByRuleTable ==
    LET Stem100 == { <<"r", "e", "a", "d", "m", "e">>, <<"l", "i", "c", "e", "n", "s", "e">>,
                     <<"s", "e", "t", "u", "p">>, <<"p", "y", "p", "r", "o", "j", "e", "c", "t">>,
                     <<"p", "a", "c", "k", "a", "g", "e">>,
                     <<"r", "e", "q", "u", "i", "r", "e", "m", "e", "n", "t", "s">>,
                     <<"d", "o", "c", "k", "e", "r", "f", "i", "l", "e">>,
                     <<"c", "o", "m", "p", "o", "s", "e">>, <<"m", "a", "k", "e", "f", "i", "l", "e">>,
                     <<"m", "a", "i", "n">>, <<"a", "p", "p">> }
        Ext80 == { <<"p", "y">>, <<"j", "s">>, <<"j", "s", "o", "n">>, <<"y", "m", "l">>,
                   <<"y", "a", "m", "l">>, <<"t", "o", "m", "l">>, <<"s", "h">> }
        Ext70 == { <<"m", "d">>, <<"r", "s", "t">>, <<"t", "x", "t">> }
        Table(name) ==
            LET stem == LowerStr(PathStem(<<name>>))
                suffix == LowerStr(PathSuffix(<<name>>))
                extension == IF suffix = <<>> THEN <<>> ELSE Tail(suffix)
            IN IF stem \in Stem100 THEN 100
               ELSE IF suffix # <<>> /\ extension \in Ext80 THEN 80
               ELSE IF suffix # <<>> /\ extension \in Ext70 THEN 70
               ELSE 10
    IN /\ \A i \in 1..Len(log) :
            log[i].type = "FileForAnalysis"
                => log[i].payload.score = Table(Last(log[i].payload.path))
       /\ \A i \in 1..Len(tri.queue) : tri.queue[i][1] = Table(Last(tri.queue[i][2]))

\* main.py was sent with 100 although its extension alone gives 80, a
\* documentation file with 70 and a file no rule matches with 10
C28_AllRulesUsed ==
    /\ Has(log, "TriageComplete")
    /\ \E i, j, k \in 1..Len(log) :
         /\ log[i].type = "FileForAnalysis" /\ log[i].payload.score = 100
         /\ Last(log[i].payload.path) = <<"m", "a", "i", "n", ".", "p", "y">>
         /\ log[j].type = "FileForAnalysis" /\ log[j].payload.score = 70
         /\ log[k].type = "FileForAnalysis" /\ log[k].payload.score = 10

\* C29: the triage agent emits nothing but FileSkipped while it handles a
\* FileDiscovered; while it handles ExtractionDone it emits the
\* FileForAnalysis events and then, after the last of them, one
\* TriageComplete, also when there is no FileForAnalysis at all.
C29_FlushOnlyOnExtractionDone ==
    [][Len(delivered') = Len(delivered) + 1
       => LET ev == delivered'[Len(delivered')]
              new == SubSeq(log', Len(log) + 1, Len(log'))
              sent == SelectSeq(new, LAMBDA e : e.type \in { "FileForAnalysis", "TriageComplete", "FileSkipped" })
          IN IF ev.type = "FileDiscovered"
             THEN \A i \in 1..Len(sent) : sent[i].type = "FileSkipped"
             ELSE /\ sent # <<>>
                  /\ sent[Len(sent)].type = "TriageComplete"
                  /\ \A i \in 1..(Len(sent) - 1) : sent[i].type = "FileForAnalysis"]_vars

\* ExtractionDone was handled with an empty queue and, after a file was
\* discovered, once more
C29_EmptyAndFilledFlush ==
    /\ phase = "intake"
    /\ Len(log) >= 1
    /\ log[1].type = "TriageComplete"
    /\ Count(log, "TriageComplete") = 2
    /\ Count(log, "FileForAnalysis") = 1
    /\ log[Len(log)].type \in { "TriageComplete", "TreeBuilt" }

\* C30: AnalysisComplete is emitted only after TriageComplete and after
\* every FileAnalysed of the run; file_summaries.json is stored with it and
\* lists the results of all FileAnalysed events in the order of emission.
C30_CompleteAfterAllAnalysed ==
    LET analysed == Of(log, "FileAnalysed") IN
    /\ \A i, j \in 1..Len(log) :
         /\ (log[i].type = "AnalysisComplete" /\ log[j].type = "FileAnalysed") => j < i
         /\ (log[i].type = "AnalysisComplete" /\ log[j].type = "TriageComplete") => j < i
    /\ Count(log, "AnalysisComplete") <= Count(log, "TriageComplete")
    /\ Has(log, "AnalysisComplete") <=> mem[SummariesKey] # None
    /\ mem[SummariesKey] # None
         => mem[SummariesKey][1] = [i \in 1..Len(analysed) |-> analysed[i].payload]

\* AnalysisComplete after three files were analysed
C30_ThreeAnalysedThenComplete ==
    /\ Count(log, "FileAnalysed") = 3
    /\ Has(log, "AnalysisComplete")
    /\ Len(mem[SummariesKey][1]) = 3
    /\ crashed = {}

(***************************************************************************)
(* Properties of the classification, the summaries and the finalize step   *)
(***************************************************************************)
\* C31: analyse_file classifies by extension with fallthrough and never
\* raises: every file the analysis agent has handled has its FileAnalysed
\* event, of kind asset for an asset extension, json for a .json file whose
\* content parses, python for a .py file whose content parses, and text in
\* every other case, a parse failure included.
C31_KindByExtensionWithFallthrough ==
    LET analysed == Of(log, "FileAnalysed")
        sent == Of(log, "FileForAnalysis")
        Kind(path) ==
            LET extension == LowerStr(PathSuffix(path))
                content == MemberAt(path, upload).content
            IN IF extension \in ASSET_EXTS THEN "asset"
               ELSE IF extension = <<".", "j", "s", "o", "n">> /\ ~json_keys(content).raised
               THEN "json"
               ELSE IF extension = <<".", "p", "y">> /\ ast_parse(content).outcome = "module"
               THEN "python"
               ELSE "text"
    IN /\ "file_analysis" \notin crashed
       /\ Len(analysed) = Len(sent) - Count(chan[<<"file_triage", "file_analysis">>], "FileForAnalysis")
       /\ \A i \in 1..Len(analysed) :
            i <= Len(sent) => analysed[i].payload.kind = Kind(sent[i].payload.path)

\* C32: looks_binary returns false for an empty file, true for a file that
\* cannot be read, and otherwise true exactly when, among the first
\* min(size, 1024) bytes, the number n of bytes below 9 or strictly between
\* 13 and 32 satisfies 10 n > 3 len; a fraction of exactly 30% is text.
C32_BinaryAboveThirtyPercent ==
    (phase = "stopped" /\ result # None /\ DOMAIN upload = { "readable", "bytes" })
        => LET size == Len(upload.bytes)
               len == IF size < 1024 THEN size ELSE 1024
               control == { NUL, "^H", "^N", "^_" }
               n == Cardinality({ i \in 1..len : upload.bytes[i] \in control })
           IN result[1] = IF ~upload.readable THEN TRUE
                          ELSE IF size = 0 THEN FALSE
                          ELSE 10 * n > 3 * len

\* C32 witness: a file of 10 bytes with exactly 3 control bytes was found to
\* be text
C32_ExactlyThirtyPercentIsText ==
    /\ phase = "stopped"
    /\ DOMAIN upload = { "readable", "bytes" }
    /\ upload.readable
    /\ Len(upload.bytes) = 10
    /\ Cardinality({ i \in 1..10 : upload.bytes[i] = "^_" }) = 3
    /\ result = Some(FALSE)

C34_OneTreeAfterExtractionDone ==
    LET link == chan[<<"extraction", "tree_builder">>]
        discovered == PathsOf(log, "FileDiscovered")
    IN /\ Count(log, "TreeBuilt") <= 1
       /\ Has(log, "TreeBuilt")
            => /\ Has(log, "ExtractionDone") /\ ~Has(link, "ExtractionDone")
               /\ tb.base_dir = Some(TmpDir)
               /\ mem[TreeKey] # None
               /\ LET tree == mem[TreeKey][1] IN
                  /\ tree[1] = [depth |-> 0, label |-> PathName(TmpDir) \o <<"/">>]
                  /\ \A p \in discovered :
                        \E i \in 1..Len(tree) :
                           /\ tree[i].depth = Len(RelativeTo(p, TmpDir))
                           /\ tree[i].label = PathName(p)
                  /\ discovered = {} => Len(tree) = 1

\* C34 witness: TreeBuilt for an archive of d/n.md and main.py: the tree has
\* the root, d/, n.md and main.py
C34_TreeOfTwoFiles ==
    /\ Count(log, "TreeBuilt") = 1
    /\ PathsOf(log, "FileDiscovered") = { ExtractedPath(M_notes), ExtractedPath(M_main) }
    /\ mem[TreeKey] # None
    /\ Len(mem[TreeKey][1]) = 4

\* C35: the text synthesise_project returns, carried by ProjectDraft, is
\* never empty and has at most max_summary_length (300) characters, for every
\* list of results: the empty list and a README summary of any length
\* included.
C35_DraftWithinLimit ==
    \A i \in 1..Len(log) :
        log[i].type = "ProjectDraft"
            => /\ log[i].payload.text # <<>>
               /\ Len(log[i].payload.text) <= 300

\* C35 witness: a draft of exactly 300 characters that ends with the
\* ellipsis, made from a README summary of more than 300 characters
C35_LongReadmeCut ==
    /\ \E i \in 1..Len(syn.analyses) : Len(syn.analyses[i].summary) > 300
    /\ \E i \in 1..Len(log) :
          /\ log[i].type = "ProjectDraft"
          /\ Len(log[i].payload.text) = 300
          /\ Last(log[i].payload.text) = Ellipsis

\* C36: whatever sequence of FileDiscovered and ExtractionDone events the
\* triage agent is handed, a repeated ExtractionDone included, every queue
\* entry is emitted as FileForAnalysis at most once and TriageComplete is
\* emitted at most once.
C36_FlushedAtMostOnce ==
    /\ Count(log, "TriageComplete") <= 1
    /\ Count(log, "FileForAnalysis") <= Len(tri.queue)
    /\ \A p \in PathsOf(log, "FileForAnalysis") :
          Cardinality({ i \in 1..Len(log) :
                          log[i].type = "FileForAnalysis" /\ log[i].payload.path = p })
            <= Cardinality({ k \in 1..Len(tri.queue) : tri.queue[k][2] = p })

\* C37: when finalize runs, the analyses the draft is made from are all the
\* FileAnalysed events of the run: none is emitted or still in flight once
\* ProjectDraft was emitted, whichever of TreeBuilt and AnalysisComplete the
\* synthesizer received last.
C37_DraftFromAllAnalyses ==
    LET analysed == Of(log, "FileAnalysed")
        payloads == [i \in 1..Len(analysed) |-> analysed[i].payload]
    IN \A i \in 1..Len(log) :
          log[i].type = "ProjectDraft"
              => /\ ~Has(chan[<<"file_analysis", "summary_synthesizer">>], "FileAnalysed")
                 /\ \A j \in 1..Len(log) : log[j].type = "FileAnalysed" => j < i
                 /\ syn.analyses = payloads
                 /\ log[i].payload.draft = synthesise_project(payloads, syn.tree_text)

\* C37 witness: three files were analysed, TreeBuilt reached the synthesizer
\* after AnalysisComplete, and the draft was emitted
C37_TreeBuiltLastAfterThree ==
    /\ Count(log, "FileAnalysed") = 3
    /\ Has(log, "ProjectDraft")
    /\ Len(delivered) = 5
    /\ delivered[4].type = "AnalysisComplete"
    /\ delivered[5].type = "TreeBuilt"

C39_DiscoveredBelowBaseDir ==
    /\ \A i, j \in 1..Len(log) :
          (log[i].type = "FileDiscovered" /\ log[j].type = "ExtractionDone")
              => /\ IsDescendant(log[i].payload.path, log[j].payload.base_dir)
                 /\ RelativeTo(log[i].payload.path, log[j].payload.base_dir) # <<>>
                 /\ log[j].payload.base_dir \o RelativeTo(log[i].payload.path, log[j].payload.base_dir)
                      = log[i].payload.path
    /\ "tree_builder" \notin crashed

\* C39 witness: the member "../ai_12/x" was extracted, discovered below the
\* working directory, and the tree was built
C39_DotDotMemberDiscovered ==
    /\ Len(upload.members) = 1
    /\ upload.members[1].filename = <<".", ".", "/", "a", "i", "_", "1", "2", "/", "x">>
    /\ PathsOf(log, "FileDiscovered") = { TmpDir \o << <<"a", "i", "_", "1", "2">>, <<"x">> >> }
    /\ Has(log, "ExtractionDone")
    /\ Has(log, "TreeBuilt")

\* C40: for every job, whether the workflow returned or raised, "close" is
\* put on the event queue of the job exactly once, as its last message and
\* right after the completion message or an error message; and whenever
\* "close" is on the queue the artefacts of the job are set, to the result or
\* to an error record, so that /result no longer reports the job as running.
C40_CloseLastAfterOutcome ==
    job # None
        => LET closes == { i \in 1..Len(job.queue) : job.queue[i][1] = "close" }
               size == Len(job.queue)
           IN /\ phase = "closed" <=> closes # {}
              /\ closes # {}
                   => /\ closes = { size }
                      /\ size >= 2
                      /\ \/ /\ job.queue[size - 1][1] = "event"
                            /\ job.queue[size - 1][2] \in { "WORKFLOW_DONE", "ANALYSIS_COMPLETED" }
                            /\ job.artefacts # None /\ job.artefacts[1].kind = "return"
                         \/ /\ job.queue[size - 1][1] = "error"
                            /\ job.artefacts = Some([error |-> job.queue[size - 1][2]])
              /\ closes = {} => job.artefacts = None

\* C40 witness: a job of app.py whose workflow raised (the upload is larger
\* than the limit) is closed with an error record
C40_ClosedAfterError ==
    /\ job # None
    /\ job.app = "app.py"
    /\ phase = "closed"
    /\ job.queue = << <<"error", "ValueError">>, <<"close", "">> >>
    /\ job.artefacts = Some([error |-> "ValueError"])

====
